---- MODULE Spec2Model ----
(***************************************************************************)
(* Sandbox orchestration of ecomcoder: the port allocator                  *)
(* (services/portAllocationService.ts) over the user_sandboxes table, the  *)
(* tunnel registry (services/tunnelService.ts) and the refresh / delete    *)
(* request handlers that use them.                                         *)
(*                                                                         *)
(* Every await of the TypeScript code is a scheduling point: a handler is  *)
(* one action per stretch of code between two awaits, and the datastore,   *)
(* the tunnel provider and the operating system answer with any outcome    *)
(* the code has a branch for. The processes of the host (the servers that  *)
(* dev-theme.sh starts and the kills by port) are not part of the state:   *)
(* of a spawn the model keeps the ports it was called with.                *)
(***************************************************************************)
EXTENDS Integers, Sequences, FiniteSets, TLC

\* ------------------------------------------------------------------ bounds
\* Number of sandbox ids the datastore ever hands out.
NumSandboxes == 3
\* DEV_PORT_END - DEV_PORT_START: the pool has PoolSpan + 1 offsets.
PoolSpan == 1
\* Number of processes the host is seen to launch in one run.
MaxPids == 4

\* Number of callers (request handlers, API clients) that run at a time.
NumThreads == 2
\* Number of ngrok.forward calls the provider is asked for in one run.
MaxListeners == 2
\* Number of requests the refresh and the delete handler take up in one run.
MaxRequests == 2

\* --------------------------------------------------------------- constants
DEV_PORT_START == 5100
DEV_PORT_END == DEV_PORT_START + PoolSpan
PROXY_PORT_START == 6100
PROXY_PORT_END == PROXY_PORT_START + PoolSpan

\* SQL NULL / JavaScript null of a port column or a returned pair.
NULL == 0

SandboxIds == 1..NumSandboxes
Offsets == 0..(DEV_PORT_END - DEV_PORT_START)

\* The value getPortsForSandbox and findAvailablePortPair return for null.
NoPorts == [devPort |-> NULL, proxyPort |-> NULL]

\* What a service call returned: nothing yet.
NoResult == [op |-> "none", sandbox |-> NULL, ports |-> NoPorts, thread |-> NULL,
             key |-> "", success |-> FALSE, publicUrl |-> NULL, via |-> "none",
             processesKilled |-> 0]

Threads == 1..NumThreads
ListenerIds == 1..MaxListeners

\* The callers' user ids, which are the text the user entered (SETUP.md has
\* test_user_456), and the sandbox ids, which the datastore generates, as
\* the strings they are.
UserIds == {"u1", "u_2"}
SandboxName(s) == ToString(s)

\* A key made of the user id alone.
getTunnelKeyOfUser(userId, sandboxId) == userId

\* getTunnelKey: `${userId}_${sandboxId}`.
getTunnelKey(userId, sandboxId) == userId \o "_" \o sandboxId

\* The user whose create request inserted row s.
UserOf(s) == IF s % 2 = 1 THEN "u1" ELSE "u_2"

\* The (userId, sandboxId) the tunnel service is called with: those of the
\* rows, and the first sandbox id under the other user.
TunnelArgs == { <<UserOf(s), SandboxName(s)>> : s \in SandboxIds }
                  \cup { <<"u_2", SandboxName(1)>> }

TunnelKeys == { getTunnelKey(a[1], a[2]) : a \in TunnelArgs }

VARIABLES
    user_sandboxes, \* the table: id -> [state, dev_port, proxy_port, preview_url,
                    \* status, shopify_url]; user_id is UserOf(id)
    gpc,            \* getPortsForSandbox(s): where the call in flight stands
    ports,          \* getPortsForSandbox(s): its local `ports`
    returned,       \* what the step into this state returned, when a service call
                    \* returned in it: of which call, what, how
    firstPair,      \* the pair the first successful call for s returned
    activeTunnels,  \* the registry: key -> [listener, url, port], or NoTunnel
    listeners,      \* the provider's side: listener id -> [st, key, waiter]
    tpc,            \* caller t: where its call stands
    tkey,           \* caller t: the tunnelKey of its tunnel call
    tport,          \* caller t: the port of its createTunnel call
    tls,            \* caller t: the listeners whose forward or close it awaits
    served,         \* the requests the handlers have taken up so far
    req,            \* caller t: the request its handler serves, and the row it read
    closeErrors,    \* caller t: the listeners whose close() its closeAllTunnels
                    \* has caught rejecting (and logged)
    attempts,       \* the probe loop of startDevServer: its `attempts`
    probing,        \* the probe loop of startDevServer: where it stands
    portErrors,     \* sandbox s: the branch through which getPortsForSandbox
                    \* returned null to the create of s, "none" before (history)
    procs           \* the host: pid -> [port, sandbox, st], the process with that
                    \* pid, the port it binds and the sandbox whose script
                    \* launched it

portVars == <<user_sandboxes, gpc, ports, firstPair>>
tunnelVars == <<activeTunnels, listeners, tpc, tkey, tport, tls, req, served, closeErrors>>
probeVars == <<attempts, probing>>
vars == <<user_sandboxes, gpc, ports, returned, firstPair,
          activeTunnels, listeners, tpc, tkey, tport, tls, req, served, closeErrors,
          attempts, probing, portErrors, procs>>

\* ------------------------------------------------------------ the datastore
NoRow == [state |-> "absent", dev_port |-> NULL, proxy_port |-> NULL,
          preview_url |-> NULL, status |-> "null", shopify_url |-> "null"]

Present(s) == user_sandboxes[s].state = "present"

\* A row that passes .not('dev_port','is',null).not('proxy_port','is',null).
HasPorts(s) ==
    /\ Present(s)
    /\ user_sandboxes[s].dev_port # NULL
    /\ user_sandboxes[s].proxy_port # NULL

\* The rows the pool query of findAvailablePortPair selects.
PortRows ==
    { [dev_port |-> user_sandboxes[s].dev_port,
       proxy_port |-> user_sandboxes[s].proxy_port] : s \in {t \in SandboxIds : HasPorts(t)} }

\* ------------------------------------------------- findAvailablePortPair
\* The scan with an exclusive loop bound (i < END - START): it never tries
\* the last offset.
RECURSIVE ScanFromExclusive(_, _, _)
ScanFromExclusive(i, usedDevPorts, usedProxyPorts) ==
    IF i >= DEV_PORT_END - DEV_PORT_START
    THEN NoPorts
    ELSE LET devPort == DEV_PORT_START + i
             proxyPort == PROXY_PORT_START + i
         IN  IF devPort \notin usedDevPorts /\ proxyPort \notin usedProxyPorts
             THEN [devPort |-> devPort, proxyPort |-> proxyPort]
             ELSE ScanFromExclusive(i + 1, usedDevPorts, usedProxyPorts)

\* The scan pairing the dev port of offset i with the proxy port of the
\* next offset.
RECURSIVE ScanFromMispaired(_, _, _)
ScanFromMispaired(i, usedDevPorts, usedProxyPorts) ==
    IF i > DEV_PORT_END - DEV_PORT_START
    THEN NoPorts
    ELSE LET devPort == DEV_PORT_START + i
             proxyPort == PROXY_PORT_START + i + 1
         IN  IF devPort \notin usedDevPorts /\ proxyPort \notin usedProxyPorts
             THEN [devPort |-> devPort, proxyPort |-> proxyPort]
             ELSE ScanFromMispaired(i + 1, usedDevPorts, usedProxyPorts)

\* for (let i = 0; i <= DEV_PORT_END - DEV_PORT_START; i++): the first offset
\* whose dev port and proxy port are both unused, or null.
RECURSIVE ScanFrom(_, _, _)
ScanFrom(i, usedDevPorts, usedProxyPorts) ==
    IF i > DEV_PORT_END - DEV_PORT_START
    THEN NoPorts
    ELSE LET devPort == DEV_PORT_START + i
             proxyPort == PROXY_PORT_START + i
         IN  IF devPort \notin usedDevPorts /\ proxyPort \notin usedProxyPorts
             THEN [devPort |-> devPort, proxyPort |-> proxyPort]
             ELSE ScanFrom(i + 1, usedDevPorts, usedProxyPorts)

\* The scan with the two membership tests crossed: dev ports looked up among
\* the proxy ports and the other way round.
FirstAvailableCrossed(sandboxes) ==
    ScanFrom(0, {r.proxy_port : r \in sandboxes}, {r.dev_port : r \in sandboxes})

\* The scan of findAvailablePortPair over the rows its query returned.
FirstAvailable(sandboxes) ==
    ScanFrom(0, {r.dev_port : r \in sandboxes}, {r.proxy_port : r \in sandboxes})

\* ---------------------------------------------------- getPortsForSandbox
\* The call for s returns p through the branch `via`.
Return(s, p, via) ==
    /\ gpc' = [gpc EXCEPT ![s] = "idle"]
    /\ ports' = [ports EXCEPT ![s] = NoPorts]
    /\ returned' = [NoResult EXCEPT !.op = "getPortsForSandbox", !.sandbox = s,
                                  !.ports = p, !.success = (p # NoPorts), !.via = via]
    /\ firstPair' = [firstPair EXCEPT ![s] =
                        IF firstPair[s] = NoPorts THEN p ELSE firstPair[s]]

\* getPortsForSandbox without its reuse branch: a row with ports is sent to
\* the allocation like a row without.
GetPortsSelectNoReuse(s) ==
    /\ UNCHANGED <<tunnelVars, probeVars, portErrors, procs>>
    /\ gpc[s] = "idle"
    /\ \E error \in BOOLEAN :
         IF error \/ ~Present(s)
         THEN Return(s, NoPorts, IF Present(s) THEN "selectError" ELSE "notFound")
         ELSE /\ gpc' = [gpc EXCEPT ![s] = "find"]
              /\ UNCHANGED <<ports, firstPair>>
              /\ returned' = NoResult
    /\ UNCHANGED user_sandboxes

\* getPortsForSandbox(s) is called and its select of the sandbox's row
\* answers: an error (also for a missing row, from .single()), a row with
\* ports (reuse) or a row without. Calls for one sandbox do not overlap (the
\* create handler is the only caller, once per new id).
GetPortsSelect(s) ==
    /\ UNCHANGED <<tunnelVars, probeVars, portErrors, procs>>
    /\ gpc[s] = "idle"
    /\ \E error \in BOOLEAN :
         IF error \/ ~Present(s)
         THEN Return(s, NoPorts, IF Present(s) THEN "selectError" ELSE "notFound")
         ELSE IF user_sandboxes[s].dev_port # NULL /\ user_sandboxes[s].proxy_port # NULL
         THEN Return(s, [devPort |-> user_sandboxes[s].dev_port,
                         proxyPort |-> user_sandboxes[s].proxy_port], "reuse")
         ELSE /\ gpc' = [gpc EXCEPT ![s] = "find"]
              /\ UNCHANGED <<ports, firstPair>>
              /\ returned' = NoResult
    /\ UNCHANGED user_sandboxes

\* findAvailablePortPair: the pool query answers and the scan runs on it.
GetPortsFind(s) ==
    /\ UNCHANGED <<tunnelVars, probeVars, portErrors, procs>>
    /\ gpc[s] = "find"
    /\ \E error \in BOOLEAN :
         IF error
         THEN Return(s, NoPorts, "queryError")
         ELSE LET found == FirstAvailable(PortRows)
              IN  IF found = NoPorts
                  THEN Return(s, NoPorts, "exhausted")
                  ELSE /\ gpc' = [gpc EXCEPT ![s] = "update"]
                       /\ ports' = [ports EXCEPT ![s] = found]
                       /\ UNCHANGED firstPair
                       /\ returned' = NoResult
    /\ UNCHANGED user_sandboxes

\* The update as two statements, one per column: the error strikes the
\* second, after the first has written dev_port.
GetPortsUpdateTwoStatements(s) ==
    /\ UNCHANGED <<tunnelVars, probeVars, portErrors, procs>>
    /\ gpc[s] = "update"
    /\ \E updateError \in BOOLEAN :
         /\ user_sandboxes' =
               IF ~Present(s) THEN user_sandboxes
               ELSE IF updateError
               THEN [user_sandboxes EXCEPT ![s].dev_port = ports[s].devPort]
               ELSE [user_sandboxes EXCEPT ![s].dev_port = ports[s].devPort,
                                           ![s].proxy_port = ports[s].proxyPort]
         /\ IF updateError
            THEN Return(s, NoPorts, "updateError")
            ELSE Return(s, ports[s], "allocated")

\* The update re-running the scan on the rows of the moment of the write
\* (scan and assignment in one transaction).
GetPortsUpdateRescan(s) ==
    /\ UNCHANGED <<tunnelVars, probeVars, portErrors, procs>>
    /\ gpc[s] = "update"
    /\ \E updateError \in BOOLEAN :
         IF updateError \/ FirstAvailable(PortRows) = NoPorts
         THEN /\ Return(s, NoPorts, "updateError")
              /\ UNCHANGED user_sandboxes
         ELSE /\ user_sandboxes' =
                    IF Present(s)
                    THEN [user_sandboxes EXCEPT
                            ![s].dev_port = FirstAvailable(PortRows).devPort,
                            ![s].proxy_port = FirstAvailable(PortRows).proxyPort]
                    ELSE user_sandboxes
              /\ Return(s, FirstAvailable(PortRows), "allocated")

\* The update of the row answers: an error (nothing written), or the one
\* statement wrote both columns of the row with that id, if there is one.
GetPortsUpdate(s) ==
    /\ UNCHANGED <<tunnelVars, probeVars, portErrors, procs>>
    /\ gpc[s] = "update"
    /\ \E updateError \in BOOLEAN :
         IF updateError
         THEN /\ Return(s, NoPorts, "updateError")
              /\ UNCHANGED user_sandboxes
         ELSE /\ user_sandboxes' =
                    IF Present(s)
                    THEN [user_sandboxes EXCEPT ![s].dev_port = ports[s].devPort,
                                                ![s].proxy_port = ports[s].proxyPort]
                    ELSE user_sandboxes
              /\ Return(s, ports[s], "allocated")

\* ------------------------------------------------------- rows come and go
\* createUserSandbox inserts a row without ports; ids are handed out in order.
InsertSandbox(s) ==
    /\ UNCHANGED <<tunnelVars, probeVars, portErrors, procs>>
    /\ user_sandboxes[s].state = "absent"
    /\ \A t \in SandboxIds : t < s => user_sandboxes[t].state # "absent"
    /\ user_sandboxes' = [user_sandboxes EXCEPT ![s].state = "present"]
    /\ UNCHANGED <<gpc, ports, firstPair>>
    /\ returned' = NoResult

\* A row that is gone.
DeletedRow == [state |-> "deleted", dev_port |-> NULL, proxy_port |-> NULL,
               preview_url |-> NULL, status |-> "null", shopify_url |-> "null"]

\* The delete of the row with that id; the id is never used again.
DeleteRecord(s) ==
    /\ UNCHANGED <<tunnelVars, probeVars, portErrors, procs>>
    /\ Present(s)
    /\ user_sandboxes' = [user_sandboxes EXCEPT ![s] = DeletedRow]
    /\ UNCHANGED <<gpc, ports, firstPair>>
    /\ returned' = NoResult

\* ------------------------------------------------------------------ the host
Pids == 1..MaxPids

NoProcess == [port |-> NULL, sandbox |-> NULL, st |-> "none"]

\* A process that has ended: its pid is not used again.
Ended == [port |-> NULL, sandbox |-> NULL, st |-> "gone"]

\* The process runs: it was launched and has not exited; a process that was
\* sent SIGTERM runs until it exits.
Alive(p) == procs[p].st \in {"running", "signalled"}

\* lsof -ti :port, the pids of the processes on the port.
Listed(port) == {p \in Pids : Alive(p) /\ procs[p].port = port}

\* The processes on either port of a sandbox when dev-theme.sh is spawned
\* for it.
BoundTo(devPort, proxyPort) == Listed(devPort) \cup Listed(proxyPort)

\* kill of each of the pids: SIGTERM to those that run; the kill of a pid
\* that is gone fails.
Kill(pids) ==
    [p \in Pids |-> IF p \in pids /\ procs[p].st = "running"
                    THEN [procs[p] EXCEPT !.st = "signalled"]
                    ELSE procs[p]]

\* The pid of the next process.
NextPid == CHOOSE p \in Pids : /\ procs[p].st = "none"
                               /\ \A q \in Pids : procs[q].st = "none" => p <= q

\* A server is launched for sandbox s to listen on the port: it runs, or it
\* is gone at once when a running process holds the port.
Launch(port, s) ==
    [procs EXCEPT ![NextPid] =
        IF Listed(port) = {} THEN [port |-> port, sandbox |-> s, st |-> "running"]
        ELSE Ended]

\* A process ends: it crashes, or it exits on the SIGTERM it was sent.
ProcessExits(p) ==
    /\ Alive(p)
    /\ procs' = [procs EXCEPT ![p] = Ended]
    /\ UNCHANGED <<portVars, tunnelVars, probeVars, portErrors>>
    /\ returned' = NoResult

\* A process of the host that no script of a live request launched binds
\* the port: a server an earlier start left behind.
ProcessBinds(port) ==
    /\ \E p \in Pids : procs[p].st = "none"
    /\ Listed(port) = {}
    /\ procs' = Launch(port, NULL)
    /\ UNCHANGED <<portVars, tunnelVars, probeVars, portErrors>>
    /\ returned' = NoResult

\* ---------------------------------------------------------- tunnelService
NoTunnel == [listener |-> NULL, url |-> NULL, port |-> NULL]
NoListener == [st |-> "none", key |-> "", waiter |-> NULL]

\* A listener that is gone: closed, or never opened.
Gone(st) == [st |-> st, key |-> "", waiter |-> NULL]

\* The public URL of listener h (listener.url()): one per listener.
UrlOf(h) == h

\* The ports createTunnel is called with: the proxy ports of the pool.
TunnelPorts == { PROXY_PORT_START + i : i \in Offsets }

\* The next listener the provider hands out.
FreshListeners == { h \in ListenerIds : listeners[h].st = "none" }
NextListener == CHOOSE h \in FreshListeners : \A g \in FreshListeners : h <= g

\* The request of a caller that serves none. Of a request the caller keeps
\* the row's id and ports, the public URL startDevServer returned, the
\* isPortReady of its probe while startDevServer runs, and the steps it has
\* taken so far; of a create the statuses its route has written so far; of
\* a delete the pids of `pids`, how many pids its listings
\* have found so far and its processesKilled; of a start how far its script
\* is and the processes that were on its ports when it was spawned.
NoRequest == [op |-> "none", sandbox |-> NULL, devPort |-> NULL, proxyPort |-> NULL,
              url |-> NULL, ready |-> "none", done |-> <<>>, storeUrl |-> "null",
              script |-> "none", old |-> {}, children |-> {}, pids |-> {},
              found |-> 0,
              processesKilled |-> 0, written |-> <<>>]

\* Where caller t goes on when its tunnel call returns r: a caller of the
\* service is done; refreshDevServer goes from closeTunnel into
\* startDevServer, which has spawned dev-theme.sh when it awaits next;
\* startDevServer throws on a failed createTunnel and the refresh answers 500
\* (the create route writes status 'error' first), otherwise the route saves
\* the preview URL; the delete handler goes from closeTunnel to removing the
\* files.
Continue(t, r) ==
    CASE req[t].op = "refresh" /\ r.op = "closeTunnel" -> "sd_wait"
      [] req[t].op = "refresh" /\ r.op = "createTunnel" ->
            IF r.success /\ r.publicUrl # NULL THEN "r_saveUrl" ELSE "idle"
      [] req[t].op = "create" /\ r.op = "createTunnel" ->
            IF r.success /\ r.publicUrl # NULL THEN "c_saveUrl" ELSE "c_error"
      [] req[t].op = "delete" /\ r.op = "closeTunnel" -> "d_rm"
      [] OTHER -> "idle"

\* The request of caller t after its tunnel call returned r: startDevServer
\* has spawned the script (after closeTunnel), or has returned (after
\* createTunnel) and its isPortReady is gone.
AfterTunnelCall(t, r) ==
    IF Continue(t, r) = "idle" THEN NoRequest
    ELSE IF Continue(t, r) = "sd_wait"
    THEN [req[t] EXCEPT !.done = Append(@, "spawn"),
                        !.old = BoundTo(req[t].devPort, req[t].proxyPort)]
    ELSE IF r.op = "createTunnel"
    THEN [req[t] EXCEPT !.url = r.publicUrl, !.ready = "none",
                        !.done = Append(@, "tunnel")]
    ELSE IF Continue(t, r) = "d_rm"
    THEN [req[t] EXCEPT !.done = Append(@, "closeTunnel")]
    ELSE req[t]

\* A tunnel call of caller t returns result r.
TunnelReturn(t, r) ==
    /\ tpc' = [tpc EXCEPT ![t] = Continue(t, r)]
    /\ req' = [req EXCEPT ![t] = AfterTunnelCall(t, r)]
    /\ tkey' = [tkey EXCEPT ![t] = ""]
    /\ tport' = [tport EXCEPT ![t] = NULL]
    /\ tls' = [tls EXCEPT ![t] = {}]
    /\ returned' = [NoResult EXCEPT !.op = r.op, !.thread = t, !.key = r.key,
                                    !.success = r.success, !.publicUrl = r.publicUrl,
                                    !.via = r.via]

\* createTunnel without the check for an existing tunnel.
CreateTunnelBeginNoDedup(t, port, k) ==
    /\ FreshListeners # {}
    /\ listeners' = [listeners EXCEPT ![NextListener] =
                        [st |-> "pending", key |-> k, waiter |-> t]]
    /\ tpc' = [tpc EXCEPT ![t] = "forward"]
    /\ tkey' = [tkey EXCEPT ![t] = k]
    /\ tport' = [tport EXCEPT ![t] = port]
    /\ tls' = [tls EXCEPT ![t] = {NextListener}]
    /\ UNCHANGED <<activeTunnels, req>>
    /\ returned' = NoResult

\* createTunnel up to its await: an existing entry is returned, otherwise
\* ngrok.forward is called and raced against the 15 s timer.
CreateTunnelBegin(t, port, k) ==
    IF activeTunnels[k] # NoTunnel
    THEN /\ TunnelReturn(t, [op |-> "createTunnel", key |-> k, success |-> TRUE,
                             publicUrl |-> activeTunnels[k].url, via |-> "existing"])
         /\ UNCHANGED <<activeTunnels, listeners>>
    ELSE /\ FreshListeners # {}
         /\ listeners' = [listeners EXCEPT ![NextListener] =
                             [st |-> "pending", key |-> k, waiter |-> t]]
         /\ tpc' = [tpc EXCEPT ![t] = "forward"]
         /\ tkey' = [tkey EXCEPT ![t] = k]
         /\ tport' = [tport EXCEPT ![t] = port]
         /\ tls' = [tls EXCEPT ![t] = {NextListener}]
         /\ UNCHANGED <<activeTunnels, req>>
         /\ returned' = NoResult

\* A caller calls createTunnel(port, userId, sandboxId).
CreateTunnelCall(t) ==
    /\ tpc[t] = "idle"
    /\ \E port \in TunnelPorts, a \in TunnelArgs :
         CreateTunnelBegin(t, port, getTunnelKey(a[1], a[2]))
    /\ UNCHANGED <<portVars, probeVars, portErrors, procs, closeErrors, served>>

\* forward resolves before the timer: the listener is open; without a URL
\* createTunnel throws and fails, with one it stores the entry.
ForwardResolve(t) ==
    /\ tpc[t] = "forward"
    /\ \E h \in tls[t], hasUrl \in BOOLEAN :
         /\ listeners' = [listeners EXCEPT ![h].st = "open", ![h].waiter = NULL]
         /\ IF hasUrl
            THEN /\ activeTunnels' = [activeTunnels EXCEPT ![tkey[t]] =
                                        [listener |-> h, url |-> UrlOf(h), port |-> tport[t]]]
                 /\ TunnelReturn(t, [op |-> "createTunnel", key |-> tkey[t],
                                     success |-> TRUE, publicUrl |-> UrlOf(h), via |-> "created"])
            ELSE /\ UNCHANGED activeTunnels
                 /\ TunnelReturn(t, [op |-> "createTunnel", key |-> tkey[t],
                                     success |-> FALSE, publicUrl |-> NULL, via |-> "noUrl"])
    /\ UNCHANGED <<portVars, probeVars, portErrors, procs, closeErrors, served>>

\* forward rejects before the timer: createTunnel fails.
ForwardReject(t) ==
    /\ tpc[t] = "forward"
    /\ \E h \in tls[t] :
         listeners' = [listeners EXCEPT ![h] = Gone("failed")]
    /\ TunnelReturn(t, [op |-> "createTunnel", key |-> tkey[t],
                        success |-> FALSE, publicUrl |-> NULL, via |-> "forwardError"])
    /\ UNCHANGED <<portVars, probeVars, portErrors, procs, closeErrors, served, activeTunnels>>

\* The 15 s timer wins the race: createTunnel fails, forward stays pending.
ForwardTimeout(t) ==
    /\ tpc[t] = "forward"
    /\ \E h \in tls[t] :
         listeners' = [listeners EXCEPT ![h].waiter = NULL]
    /\ TunnelReturn(t, [op |-> "createTunnel", key |-> tkey[t],
                        success |-> FALSE, publicUrl |-> NULL, via |-> "timeout"])
    /\ UNCHANGED <<portVars, probeVars, portErrors, procs, closeErrors, served, activeTunnels>>

\* createTunnel going on after its timer fired: the listener of a forward
\* that resolves late is stored under its key.
ForwardSettlesLateStores(h) ==
    /\ listeners[h].st = "pending"
    /\ listeners[h].waiter = NULL
    /\ listeners' = [listeners EXCEPT ![h].st = "open"]
    /\ activeTunnels' = [activeTunnels EXCEPT ![listeners[h].key] =
                            [listener |-> h, url |-> UrlOf(h), port |-> PROXY_PORT_START]]
    /\ UNCHANGED <<portVars, probeVars, portErrors, procs, closeErrors, served, tpc, tkey, tport, tls, req>>
    /\ returned' = NoResult

\* A forward nobody awaits any more settles: the provider opens the tunnel
\* or gives up.
ForwardSettlesLate(h) ==
    /\ listeners[h].st = "pending"
    /\ listeners[h].waiter = NULL
    /\ \E opened \in BOOLEAN :
         listeners' = IF opened THEN [listeners EXCEPT ![h].st = "open"]
                      ELSE [listeners EXCEPT ![h] = Gone("failed")]
    /\ UNCHANGED <<portVars, probeVars, portErrors, procs, closeErrors, served, activeTunnels, tpc, tkey, tport, tls, req>>
    /\ returned' = NoResult

\* closeTunnel deleting the key and answering true without an entry.
CloseTunnelBeginNoGuard(t, k) ==
    /\ activeTunnels' = [activeTunnels EXCEPT ![k] = NoTunnel]
    /\ TunnelReturn(t, [op |-> "closeTunnel", key |-> k, success |-> TRUE,
                        publicUrl |-> NULL, via |-> "closed"])
    /\ UNCHANGED listeners

\* closeTunnel up to its await: false without an entry, otherwise
\* listener.close() is called.
CloseTunnelBegin(t, k) ==
    IF activeTunnels[k] = NoTunnel
    THEN /\ TunnelReturn(t, [op |-> "closeTunnel", key |-> k, success |-> FALSE,
                             publicUrl |-> NULL, via |-> "noTunnel"])
         /\ UNCHANGED <<activeTunnels, listeners>>
    ELSE /\ tpc' = [tpc EXCEPT ![t] = "closing"]
         /\ tkey' = [tkey EXCEPT ![t] = k]
         /\ tls' = [tls EXCEPT ![t] = {activeTunnels[k].listener}]
         /\ UNCHANGED <<activeTunnels, listeners, tport, req>>
         /\ returned' = NoResult

\* A caller calls closeTunnel(userId, sandboxId).
CloseTunnelCall(t) ==
    /\ tpc[t] = "idle"
    /\ \E a \in TunnelArgs :
         CloseTunnelBegin(t, getTunnelKey(a[1], a[2]))
    /\ UNCHANGED <<portVars, probeVars, portErrors, procs, closeErrors, served>>

\* listener.close() resolves: the key is deleted, closeTunnel answers true.
CloseResolve(t) ==
    /\ tpc[t] = "closing"
    /\ \E h \in tls[t] :
         listeners' = [listeners EXCEPT ![h] = Gone("closed")]
    /\ activeTunnels' = [activeTunnels EXCEPT ![tkey[t]] = NoTunnel]
    /\ TunnelReturn(t, [op |-> "closeTunnel", key |-> tkey[t], success |-> TRUE,
                        publicUrl |-> NULL, via |-> "closed"])
    /\ UNCHANGED <<portVars, probeVars, portErrors, procs, closeErrors, served>>

\* closeTunnel deleting the key also when listener.close() rejected.
CloseRejectRemoves(t) ==
    /\ tpc[t] = "closing"
    /\ activeTunnels' = [activeTunnels EXCEPT ![tkey[t]] = NoTunnel]
    /\ TunnelReturn(t, [op |-> "closeTunnel", key |-> tkey[t], success |-> FALSE,
                        publicUrl |-> NULL, via |-> "closeError"])
    /\ UNCHANGED <<portVars, probeVars, portErrors, procs, closeErrors, served, listeners>>

\* listener.close() rejects: closeTunnel answers false, the entry stays; the
\* listener is left as it was.
CloseReject(t) ==
    /\ tpc[t] = "closing"
    /\ TunnelReturn(t, [op |-> "closeTunnel", key |-> tkey[t], success |-> FALSE,
                        publicUrl |-> NULL, via |-> "closeError"])
    /\ UNCHANGED <<portVars, probeVars, portErrors, procs, closeErrors, served, activeTunnels, listeners>>

\* closeAllTunnels up to its await: nothing to do on an empty registry,
\* otherwise close() is called on the listener of every entry.
CloseAllCall(t) ==
    /\ tpc[t] = "idle"
    /\ IF \A k \in TunnelKeys : activeTunnels[k] = NoTunnel
       THEN TunnelReturn(t, [op |-> "closeAllTunnels", key |-> "", success |-> TRUE,
                             publicUrl |-> NULL, via |-> "empty"])
       ELSE /\ tpc' = [tpc EXCEPT ![t] = "closingAll"]
            /\ tls' = [tls EXCEPT ![t] =
                          { activeTunnels[k].listener :
                              k \in { j \in TunnelKeys : activeTunnels[j] # NoTunnel } }]
            /\ UNCHANGED <<tkey, tport, req>>
            /\ returned' = NoResult
    /\ UNCHANGED <<portVars, probeVars, portErrors, procs, closeErrors, served, activeTunnels, listeners>>

\* closeAllTunnels without the try/catch around each close(): a rejection
\* rejects Promise.all, the call throws and the registry is not cleared.
CloseAllSettleThrows(t) ==
    /\ tpc[t] = "closingAll"
    /\ \E h \in tls[t], resolved \in BOOLEAN :
         IF resolved
         THEN /\ listeners' = [listeners EXCEPT ![h] = Gone("closed")]
              /\ tls' = [tls EXCEPT ![t] = tls[t] \ {h}]
              /\ UNCHANGED <<tpc, tkey, tport, req>>
              /\ returned' = NoResult
         ELSE /\ TunnelReturn(t, [op |-> "closeAllTunnels", key |-> "", success |-> FALSE,
                                  publicUrl |-> NULL, via |-> "threw"])
              /\ UNCHANGED listeners
    /\ UNCHANGED <<portVars, probeVars, portErrors, procs, closeErrors, served, activeTunnels>>

\* One of the close() calls of closeAllTunnels settles: resolved, or rejected
\* and the error logged.
CloseAllSettle(t) ==
    /\ tpc[t] = "closingAll"
    /\ \E h \in tls[t], resolved \in BOOLEAN :
         /\ listeners' = IF resolved THEN [listeners EXCEPT ![h] = Gone("closed")]
                         ELSE listeners
         /\ closeErrors' = IF resolved THEN closeErrors
                           ELSE [closeErrors EXCEPT ![t] = closeErrors[t] \cup {h}]
         /\ tls' = [tls EXCEPT ![t] = tls[t] \ {h}]
    /\ UNCHANGED <<portVars, probeVars, portErrors, procs, served, activeTunnels, tpc, tkey, tport, req>>
    /\ returned' = NoResult

\* Promise.all is through: the registry is cleared, whatever the close()
\* calls came to.
CloseAllFinish(t) ==
    /\ tpc[t] = "closingAll"
    /\ tls[t] = {}
    /\ activeTunnels' = [k \in TunnelKeys |-> NoTunnel]
    /\ closeErrors' = [closeErrors EXCEPT ![t] = {}]
    /\ TunnelReturn(t, [op |-> "closeAllTunnels", key |-> "", success |-> TRUE,
                        publicUrl |-> NULL,
                        via |-> IF closeErrors[t] = {} THEN "cleared"
                                ELSE "clearedAfterErrors"])
    /\ UNCHANGED <<portVars, probeVars, portErrors, procs, served, listeners>>

\* ------------------------------------------------- process exit handlers
\* The process has exited: none of its callers runs any more.
Exited == \A t \in Threads : tpc[t] = "exited"

\* process.exit(0): every call in flight ends with the process; the
\* provider's listeners are as they are at that moment.
ProcessExit ==
    /\ tpc' = [t \in Threads |-> "exited"]
    /\ tkey' = [t \in Threads |-> ""]
    /\ tport' = [t \in Threads |-> NULL]
    /\ tls' = [t \in Threads |-> {}]
    /\ req' = [t \in Threads |-> NoRequest]
    /\ closeErrors' = [t \in Threads |-> {}]

\* The signal handler calling process.exit without awaiting cleanup().
SignalExitsAtOnce(t) ==
    /\ tpc[t] = "idle"
    /\ ProcessExit
    /\ returned' = NoResult
    /\ UNCHANGED <<portVars, probeVars, portErrors, procs, served, activeTunnels, listeners>>

\* SIGINT or SIGTERM arrives: the handler awaits cleanup(), which awaits
\* closeAllTunnels. On an empty registry that returns at once and the process
\* exits; otherwise close() is called on the listener of every entry.
Signal(t) ==
    /\ tpc[t] = "idle"
    /\ IF \A k \in TunnelKeys : activeTunnels[k] = NoTunnel
       THEN /\ ProcessExit
            /\ returned' = [NoResult EXCEPT !.op = "closeAllTunnels", !.thread = t,
                                           !.success = TRUE, !.via = "empty"]
       ELSE /\ tpc' = [tpc EXCEPT ![t] = "cleanup"]
            /\ tls' = [tls EXCEPT ![t] =
                          { activeTunnels[k].listener :
                              k \in { j \in TunnelKeys : activeTunnels[j] # NoTunnel } }]
            /\ UNCHANGED <<tkey, tport, req, closeErrors>>
            /\ returned' = NoResult
    /\ UNCHANGED <<portVars, probeVars, portErrors, procs, served, activeTunnels, listeners>>

\* One of the close() calls of the cleanup settles: resolved, or rejected and
\* the error logged.
CleanupSettle(t) ==
    /\ tpc[t] = "cleanup"
    /\ \E h \in tls[t], resolved \in BOOLEAN :
         /\ listeners' = IF resolved THEN [listeners EXCEPT ![h] = Gone("closed")]
                         ELSE listeners
         /\ closeErrors' = IF resolved THEN closeErrors
                           ELSE [closeErrors EXCEPT ![t] = closeErrors[t] \cup {h}]
         /\ tls' = [tls EXCEPT ![t] = tls[t] \ {h}]
    /\ UNCHANGED <<portVars, probeVars, portErrors, procs, served, activeTunnels, tpc, tkey, tport, req>>
    /\ returned' = NoResult

\* Promise.all is through: the registry is cleared, closeAllTunnels and
\* cleanup() return and the handler calls process.exit(0).
CleanupExit(t) ==
    /\ tpc[t] = "cleanup"
    /\ tls[t] = {}
    /\ activeTunnels' = [k \in TunnelKeys |-> NoTunnel]
    /\ ProcessExit
    /\ returned' = [NoResult EXCEPT !.op = "closeAllTunnels", !.thread = t,
                                   !.success = TRUE,
                                   !.via = IF closeErrors[t] = {} THEN "cleared"
                                           ELSE "clearedAfterErrors"]
    /\ UNCHANGED <<portVars, probeVars, portErrors, procs, served, listeners>>

\* ------------------------------------- startDevServer: the probe loop
\* const maxAttempts = 60.
maxAttempts == 60

\* checkPort(): attempts++, then a socket is connected to the proxy port.
checkPort ==
    /\ attempts' = attempts + 1
    /\ probing' = "connecting"

\* The promise of the probe is created and checkPort() called for the first
\* time.
ProbeStart ==
    /\ probing = "idle"
    /\ checkPort
    /\ UNCHANGED <<portVars, tunnelVars, returned, portErrors, procs>>

\* The connect handler resolving true and calling checkPort() once more.
ProbeConnectsAndChecksAgain ==
    /\ probing = "connecting"
    /\ probing' = "ready"
    /\ attempts' = attempts + 1
    /\ UNCHANGED <<portVars, tunnelVars, returned, portErrors, procs>>

\* The socket connects: resolve(true), nothing is scheduled.
ProbeConnects ==
    /\ probing = "connecting"
    /\ probing' = "ready"
    /\ UNCHANGED <<attempts, portVars, tunnelVars, returned, portErrors, procs>>

\* The failing attempt testing attempts > maxAttempts.
ProbeAttemptFailsOneMore ==
    /\ probing = "connecting"
    /\ \E event \in {"timeout", "error", "threw"} :
         probing' = IF attempts > maxAttempts THEN "notReady" ELSE "waiting"
    /\ UNCHANGED <<attempts, portVars, tunnelVars, returned, portErrors, procs>>

\* The attempt ends in the socket's 1 s timeout, in a socket error or in an
\* exception of checkPort: resolve(false) when attempts >= maxAttempts,
\* otherwise setTimeout(checkPort, 500).
ProbeAttemptFails ==
    /\ probing = "connecting"
    /\ \E event \in {"timeout", "error", "threw"} :
         probing' = IF attempts >= maxAttempts THEN "notReady" ELSE "waiting"
    /\ UNCHANGED <<attempts, portVars, tunnelVars, returned, portErrors, procs>>

\* The 500 ms timer fires: checkPort() again.
ProbeRetry ==
    /\ probing = "waiting"
    /\ checkPort
    /\ UNCHANGED <<portVars, tunnelVars, returned, portErrors, procs>>

\* ------------------------------------------------ the handlers' requests
\* The key of the tunnel of the sandbox of caller t's request: the row's
\* user_id and its id.
RequestKey(t) == getTunnelKey(UserOf(req[t].sandbox), SandboxName(req[t].sandbox))

\* A handler answers its request.
HandlerReturn(t) ==
    /\ tpc' = [tpc EXCEPT ![t] = "idle"]
    /\ req' = [req EXCEPT ![t] = NoRequest]

\* updateSandboxPreviewUrl(sandboxId, previewUrl): the row's preview_url.
updateSandboxPreviewUrl(sandboxId, previewUrl) ==
    IF Present(sandboxId)
    THEN [user_sandboxes EXCEPT ![sandboxId].preview_url = previewUrl]
    ELSE user_sandboxes

\* ------------------------------------------------- /api/refresh-server
\* The ports a refresh takes from the pool afresh when there are any.
RefreshPortsFresh(s) ==
    IF FirstAvailable(PortRows) = NoPorts
    THEN [devPort |-> user_sandboxes[s].dev_port,
          proxyPort |-> user_sandboxes[s].proxy_port]
    ELSE FirstAvailable(PortRows)

\* The ports the route hands to refreshDevServer: those of the row it read.
RefreshPorts(s) ==
    [devPort |-> user_sandboxes[s].dev_port,
     proxyPort |-> user_sandboxes[s].proxy_port]

\* The row of the request is read: 404 without it, 400 without theme id or
\* credentials (configured) or without ports; otherwise refreshDevServer is
\* called with the row's ports.
RefreshRead(t, s, error, configured) ==
    /\ tpc[t] = "idle"
    /\ served < MaxRequests
    /\ IF error \/ ~Present(s) \/ ~configured \/ ~HasPorts(s)
       THEN UNCHANGED <<tpc, req, served>>
       ELSE /\ tpc' = [tpc EXCEPT ![t] = "r_refresh"]
            /\ served' = served + 1
            /\ req' = [req EXCEPT ![t] =
                          [NoRequest EXCEPT !.op = "refresh", !.sandbox = s,
                                            !.devPort = RefreshPorts(s).devPort,
                                            !.proxyPort = RefreshPorts(s).proxyPort]]
    /\ UNCHANGED <<portVars, probeVars, portErrors, procs, closeErrors, listeners, tkey, tport, tls>>

\* The route's first steps, the answer of a rejected request left out.
RefreshFetch(t) ==
    /\ \E s \in SandboxIds, error \in BOOLEAN, configured \in BOOLEAN :
         RefreshRead(t, s, error, configured)
    /\ UNCHANGED activeTunnels
    /\ returned' = NoResult

\* The answer of the route's first steps: 404 and 400 for a rejected
\* request, none yet for one that goes on to refreshDevServer.
RefreshRejection(t, s, error, configured) ==
    IF error \/ ~Present(s)
    THEN [NoResult EXCEPT !.op = "refresh", !.thread = t, !.sandbox = s, !.via = "404"]
    ELSE IF ~configured \/ ~HasPorts(s)
         THEN [NoResult EXCEPT !.op = "refresh", !.thread = t, !.sandbox = s, !.via = "400"]
         ELSE NoResult

\* The route closing the sandbox's tunnel before it validates the row.
RefreshFetchAnsweredClosing(t) ==
    \E s \in SandboxIds, error \in BOOLEAN, configured \in BOOLEAN :
        /\ RefreshRead(t, s, error, configured)
        /\ activeTunnels' = [activeTunnels EXCEPT
                                ![getTunnelKey(UserOf(s), SandboxName(s))] = NoTunnel]
        /\ returned' = RefreshRejection(t, s, error, configured)

\* The route's first steps with the answer of a rejected request.
RefreshFetchAnswered(t) ==
    \E s \in SandboxIds, error \in BOOLEAN, configured \in BOOLEAN :
        /\ RefreshRead(t, s, error, configured)
        /\ UNCHANGED activeTunnels
        /\ returned' = RefreshRejection(t, s, error, configured)

\* refreshDevServer: closeTunnel for the sandbox, first.
RefreshDevServer(t) ==
    /\ tpc[t] = "r_refresh"
    /\ CloseTunnelBegin(t, RequestKey(t))
    /\ UNCHANGED <<portVars, probeVars, portErrors, procs, closeErrors, served>>

\* startDevServer returns success: false to caller t: the refresh route
\* answers 500, the create route writes status 'error' first.
StartFails(t) ==
    IF req[t].op = "create"
    THEN /\ tpc' = [tpc EXCEPT ![t] = "c_error"]
         /\ req' = [req EXCEPT ![t].ready = "none"]
    ELSE HandlerReturn(t)

\* The child exits before it has written any output. startDevServer listens
\* to the child's stdout, stderr and 'error', not to its exit.
ChildExitsEarly(t) ==
    /\ tpc[t] = "sd_wait"
    /\ tpc' = [tpc EXCEPT ![t] = "sd_exited"]
    /\ UNCHANGED <<portVars, probeVars, portErrors, procs, closeErrors, served, activeTunnels, listeners, tkey, tport, tls, req>>
    /\ returned' = NoResult

\* The wait taking the child's 'error' for one more way to go on.
StartupAnswerIgnoresError(t) ==
    /\ tpc[t] \in {"sd_wait", "sd_exited"}
    /\ \E event \in {"marker", "timer", "error"} :
         /\ tpc[t] = "sd_exited" => event = "timer"
         /\ tpc' = [tpc EXCEPT ![t] = "sd_probe"]
         /\ req' = [req EXCEPT ![t].done = Append(@, "probe")]
         /\ returned' = [NoResult EXCEPT !.op = "startup", !.thread = t, !.via = event]
    /\ UNCHANGED <<portVars, probeVars, portErrors, procs, closeErrors, served, activeTunnels, listeners, tkey, tport, tls>>

\* startDevServer awaits the script it spawned: the script writes one of
\* the startup markers or the 30 s timer fires, and startDevServer goes on
\* to the probe, whose first attempt it starts; or the child emits 'error'
\* and startDevServer fails. A child that has exited writes no marker and
\* emits nothing startDevServer listens to: the timer ends the wait. The
\* event that ended the wait is what the step returns.
StartupAnswer(t) ==
    /\ tpc[t] \in {"sd_wait", "sd_exited"}
    /\ \E event \in {"marker", "timer", "error"} :
         /\ tpc[t] = "sd_exited" => event = "timer"
         /\ IF event = "error"
            THEN StartFails(t)
            ELSE /\ tpc' = [tpc EXCEPT ![t] = "sd_probe"]
                 /\ req' = [req EXCEPT ![t].done = Append(@, "probe")]
         /\ returned' = [NoResult EXCEPT !.op = "startup", !.thread = t, !.via = event]
    /\ UNCHANGED <<portVars, probeVars, portErrors, procs, closeErrors, served, activeTunnels, listeners, tkey, tport, tls>>

\* The probe resolving with false making startDevServer fail.
ProbeResolvesRequired(t) ==
    /\ tpc[t] = "sd_probe"
    /\ \E isPortReady \in BOOLEAN :
         IF isPortReady
         THEN /\ tpc' = [tpc EXCEPT ![t] = "sd_tunnel"]
              /\ req' = [req EXCEPT ![t].ready = "ready",
                                     ![t].done = Append(@, "probed")]
         ELSE StartFails(t)
    /\ UNCHANGED <<portVars, probeVars, portErrors, procs, closeErrors, served, activeTunnels, listeners, tkey, tport, tls>>
    /\ returned' = NoResult

\* The probe of the proxy port resolves (the loop is ProbeStart to
\* ProbeRetry): isPortReady is true or false.
ProbeResolves(t) ==
    /\ tpc[t] = "sd_probe"
    /\ \E isPortReady \in BOOLEAN :
         req' = [req EXCEPT ![t].ready = IF isPortReady THEN "ready" ELSE "notReady",
                            ![t].done = Append(@, "probed")]
    /\ tpc' = [tpc EXCEPT ![t] = "sd_tunnel"]
    /\ UNCHANGED <<portVars, probeVars, portErrors, procs, closeErrors, served, activeTunnels, listeners, tkey, tport, tls>>
    /\ returned' = NoResult

\* The continuation of the probe, ready or not: createTunnel for the proxy
\* port.
ProbeDone(t) ==
    /\ tpc[t] = "sd_tunnel"
    /\ CreateTunnelBegin(t, req[t].proxyPort, RequestKey(t))
    /\ UNCHANGED <<portVars, probeVars, portErrors, procs, closeErrors, served>>

\* ------------------------------------------------------------ dev-theme.sh
\* The script startDevServer spawned for caller t's request, followed while
\* the request is served: req[t].script is the step it has taken last,
\* req[t].children the pids of the servers it launched.
Spawned(t) == \E i \in DOMAIN req[t].done : req[t].done[i] = "spawn"

\* A step of the script that leaves everything but the host and the script
\* itself alone.
ScriptStep(t, from, to) ==
    /\ Spawned(t)
    /\ req[t].script = from
    /\ req' = [req EXCEPT ![t].script = to]
    /\ UNCHANGED <<portVars, probeVars, portErrors, closeErrors, served, activeTunnels,
                   listeners, tpc, tkey, tport, tls>>
    /\ returned' = NoResult

\* STEPS 1 to 3 and 5 to 7: the script validates its arguments, its
\* environment and the theme directory and exits with 1 when something is
\* missing, before STEP 4 or after it, before it has written a marker.
ScriptExitsEarly(t) ==
    /\ \E from \in {"none", "killedProxy"} : ScriptStep(t, from, "exitedEarly")
    /\ UNCHANGED procs

\* STEP 4, dev port: kill of every pid lsof lists on it; no pid is no error.
ScriptKillDev(t) ==
    /\ ScriptStep(t, "none", "killedDev")
    /\ procs' = Kill(Listed(req[t].devPort))

\* STEP 4, proxy port: the same, and sleep 1 when a process was killed.
ScriptKillProxy(t) ==
    /\ ScriptStep(t, "killedDev", "killedProxy")
    /\ procs' = Kill(Listed(req[t].proxyPort))

\* STEP 8: "Development servers will be available at:" is written.
ScriptInfo(t) ==
    /\ ScriptStep(t, "killedProxy", "info")
    /\ UNCHANGED procs

\* The script launches a server on the port and keeps its pid.
ScriptLaunch(t, from, to, port) ==
    /\ Spawned(t)
    /\ req[t].script = from
    /\ \E p \in Pids : procs[p].st = "none"
    /\ procs' = Launch(port, req[t].sandbox)
    /\ req' = [req EXCEPT ![t].script = to, ![t].children = @ \cup {NextPid}]
    /\ UNCHANGED <<portVars, probeVars, portErrors, closeErrors, served, activeTunnels,
                   listeners, tpc, tkey, tport, tls>>
    /\ returned' = NoResult

\* The server the script launched on the port runs (kill -0 of its pid).
ChildRuns(t, port) ==
    \E p \in req[t].children : Alive(p) /\ procs[p].port = port

\* STEP 10: "Starting Shopify theme development server" is written and the
\* Shopify server is launched in the background on the dev port.
ScriptStartShopify(t) == ScriptLaunch(t, "info", "shopify", req[t].devPort)

\* STEP 10, after sleep 10: exit 1 when the Shopify server does not run.
ScriptCheckShopify(t) ==
    /\ ScriptStep(t, "shopify",
                  IF ChildRuns(t, req[t].devPort) THEN "shopifyUp" ELSE "exitedShopify")
    /\ UNCHANGED procs

\* STEP 11: the proxy server is launched in the background on the proxy
\* port.
ScriptStartProxy(t) == ScriptLaunch(t, "shopifyUp", "proxy", req[t].proxyPort)

\* STEP 11, after sleep 5: when the proxy server does not run the Shopify
\* server is killed and the script exits with 1; otherwise STEP 12 writes
\* "Both servers are running successfully!".
ScriptCheckProxy(t) ==
    /\ ScriptStep(t, "proxy",
                  IF ChildRuns(t, req[t].proxyPort) THEN "up" ELSE "exitedProxy")
    /\ procs' = IF ChildRuns(t, req[t].proxyPort) THEN procs
                ELSE Kill({p \in req[t].children : procs[p].port = req[t].devPort})

\* The script of caller t's request has written one of the substrings
\* startDevServer looks for in the child's stdout: "Development servers will
\* be available at:" (STEP 8) or "Starting Shopify theme development server"
\* (STEP 10). STEP 12 writes "Both servers are running successfully!", which
\* does not contain "Both servers are running!".
MarkerWritten(t) ==
    req[t].script \in {"info", "shopify", "shopifyUp", "proxy", "up",
                       "exitedShopify", "exitedProxy"}

\* The startup wait of startDevServer on the script it spawned: checkOutput
\* resolves it on a marker in the output, the child's 'error' (the spawn
\* failed, no script ran) rejects it.
StartupAnswerOfScript(t) ==
    /\ StartupAnswer(t)
    /\ returned'.via = "marker" => MarkerWritten(t)
    /\ returned'.via = "error" => req[t].script = "none"

\* The probe of the proxy port on the host: a connection is accepted only
\* when a process listens on the port.
ProbeOfHost(t) ==
    /\ ProbeResolves(t)
    /\ req'[t].ready = "ready" => Listed(req[t].proxyPort) # {}

\* "http://127.0.0.1:<port>", for which the port stands (the public URLs are
\* the listeners' numbers, below every port).
LocalUrl(port) == port

\* The preview URL the routes compute from startDevServer's result: the
\* public URL, or the local address of the proxy port, or that of
\* assignedPort (the proxy port again) or 3000.
PreviewUrl(t) ==
    IF req[t].url # NULL THEN req[t].url
    ELSE IF req[t].proxyPort # NULL THEN LocalUrl(req[t].proxyPort)
    ELSE LocalUrl(3000)

\* The route saves the preview URL (a failure is logged) and answers.
RefreshSaveUrl(t) ==
    /\ tpc[t] = "r_saveUrl"
    /\ \E error \in BOOLEAN :
         user_sandboxes' = IF error THEN user_sandboxes
                           ELSE updateSandboxPreviewUrl(req[t].sandbox, PreviewUrl(t))
    /\ HandlerReturn(t)
    /\ UNCHANGED <<gpc, ports, firstPair, probeVars, portErrors, procs, closeErrors, activeTunnels, listeners, tkey, tport, tls,
                   served>>
    /\ returned' = NoResult

\* -------------------------------------------------- /api/delete-sandbox
\* The row of the request is read: 404 without it.
DeleteFetch(t) ==
    /\ tpc[t] = "idle"
    /\ served < MaxRequests
    /\ \E s \in SandboxIds, error \in BOOLEAN :
         IF error \/ ~Present(s)
         THEN UNCHANGED <<tpc, req, served>>
         ELSE /\ tpc' = [tpc EXCEPT ![t] = "d_listDev"]
              /\ served' = served + 1
              /\ req' = [req EXCEPT ![t] =
                            [NoRequest EXCEPT !.op = "delete", !.sandbox = s,
                                              !.devPort = user_sandboxes[s].dev_port,
                                              !.proxyPort = user_sandboxes[s].proxy_port]]
    /\ UNCHANGED <<portVars, probeVars, portErrors, procs, closeErrors, activeTunnels, listeners, tkey, tport, tls>>
    /\ returned' = NoResult

\* The steps of the delete handler before the delete of the row, in the
\* order of the code, each with the step the handler goes to from it,
\* whether it failed or not.
DeleteSteps == <<"killDev", "killProxy", "closeTunnel", "themeFolder", "tempFiles">>
AfterDeleteStep ==
    [killDev |-> "d_listProxy", killProxy |-> "d_close", closeTunnel |-> "d_rm",
     themeFolder |-> "d_tmp", tempFiles |-> "d_record"]

\* The port of the row the kill step is for.
KillPort(t, step) == IF step = "killDev" THEN req[t].devPort ELSE req[t].proxyPort

\* What a step of the delete handler returns: whether it went through.
StepResult(t, step, success) ==
    [NoResult EXCEPT !.op = "deleteStep", !.thread = t, !.via = step,
                     !.success = success]

\* The delete handler stopping at a failed step: it answers 500.
DeleteStepDoneAborts(t, step, success) ==
    /\ IF success
       THEN /\ tpc' = [tpc EXCEPT ![t] = AfterDeleteStep[step]]
            /\ req' = [req EXCEPT ![t].done = Append(@, step), ![t].pids = {}]
       ELSE HandlerReturn(t)
    /\ returned' = StepResult(t, step, success)

\* Caller t's delete handler is through with the step, which went through
\* or failed: the catch of the step logs the failure.
DeleteStepDone(t, step, success) ==
    /\ tpc' = [tpc EXCEPT ![t] = AfterDeleteStep[step]]
    /\ req' = [req EXCEPT ![t].done = Append(@, step), ![t].pids = {}]
    /\ returned' = StepResult(t, step, success)

\* `lsof -ti :port` on a port of the row, when the row has it: the pids on
\* the port. lsof fails when there are none, and the command can fail
\* (timeout 5000): the catch ends the step.
DeleteList(t, step) ==
    IF KillPort(t, step) = NULL
    THEN DeleteStepDone(t, step, TRUE)
    ELSE \E error \in BOOLEAN :
            LET pids == Listed(KillPort(t, step))
            IN  IF error \/ pids = {}
                THEN DeleteStepDone(t, step, FALSE)
                ELSE /\ tpc' = [tpc EXCEPT ![t] = IF step = "killDev" THEN "d_killDev"
                                                  ELSE "d_killProxy"]
                     /\ req' = [req EXCEPT ![t].pids = pids,
                                            ![t].found = @ + Cardinality(pids)]
                     /\ returned' = NoResult

\* The kill counting the pids it signalled, whatever xargs returns.
DeleteKillCountsSignalled(t, step) ==
    \E error \in BOOLEAN :
        LET now == Listed(KillPort(t, step))
        IN  /\ procs' = Kill(now)
            /\ tpc' = [tpc EXCEPT ![t] = AfterDeleteStep[step]]
            /\ req' = [req EXCEPT ![t].done = Append(@, step), ![t].pids = {},
                                   ![t].processesKilled = @ + Cardinality(now)]
            /\ returned' = StepResult(t, step, ~(error \/ now = {}))

\* `lsof -ti :port | xargs kill` after a listing that found pids: the
\* processes now on the port are sent SIGTERM. When the command went through,
\* processesKilled grows by the number of pids of the first listing; it
\* fails when nothing is on the port any more, or otherwise (timeout 5000),
\* with the signals sent or not, and the catch ends the step.
DeleteKill(t, step) ==
    \E error, sent \in BOOLEAN :
        LET now == Listed(KillPort(t, step))
            failed == error \/ now = {}
        IN  /\ procs' = IF failed /\ ~sent THEN procs ELSE Kill(now)
            /\ tpc' = [tpc EXCEPT ![t] = AfterDeleteStep[step]]
            /\ req' = [req EXCEPT ![t].done = Append(@, step), ![t].pids = {},
                                   ![t].processesKilled =
                                       IF failed THEN @ ELSE @ + Cardinality(req[t].pids)]
            /\ returned' = StepResult(t, step, ~failed)

\* The listing of the row's dev port.
DeleteListDev(t) ==
    /\ tpc[t] = "d_listDev"
    /\ DeleteList(t, "killDev")
    /\ UNCHANGED <<portVars, probeVars, portErrors, procs, closeErrors, served, activeTunnels, listeners, tkey, tport, tls>>

\* The kill on the row's dev port.
DeleteKillDev(t) ==
    /\ tpc[t] = "d_killDev"
    /\ DeleteKill(t, "killDev")
    /\ UNCHANGED <<portVars, probeVars, portErrors, closeErrors, served, activeTunnels, listeners, tkey, tport, tls>>

\* The listing of the row's proxy port.
DeleteListProxy(t) ==
    /\ tpc[t] = "d_listProxy"
    /\ DeleteList(t, "killProxy")
    /\ UNCHANGED <<portVars, probeVars, portErrors, procs, closeErrors, served, activeTunnels, listeners, tkey, tport, tls>>

\* The kill on the row's proxy port.
DeleteKillProxy(t) ==
    /\ tpc[t] = "d_killProxy"
    /\ DeleteKill(t, "killProxy")
    /\ UNCHANGED <<portVars, probeVars, portErrors, closeErrors, served, activeTunnels, listeners, tkey, tport, tls>>

\* closeTunnel for the sandbox.
DeleteCloseTunnel(t) ==
    /\ tpc[t] = "d_close"
    /\ CloseTunnelBegin(t, RequestKey(t))
    /\ UNCHANGED <<portVars, probeVars, portErrors, procs, closeErrors, served>>

\* rm -rf of the theme directory (timeout 10000); a failure is logged.
DeleteThemeFolder(t) ==
    /\ tpc[t] = "d_rm"
    /\ \E error \in BOOLEAN : DeleteStepDone(t, "themeFolder", ~error)
    /\ UNCHANGED <<portVars, probeVars, portErrors, procs, closeErrors, served, activeTunnels, listeners, tkey, tport, tls>>

\* rm -f of the two log files in /tmp; a failure is logged.
DeleteTempFiles(t) ==
    /\ tpc[t] = "d_tmp"
    /\ \E error \in BOOLEAN : DeleteStepDone(t, "tempFiles", ~error)
    /\ UNCHANGED <<portVars, probeVars, portErrors, procs, closeErrors, served, activeTunnels, listeners, tkey, tport, tls>>

\* The delete answering success whatever the delete of the row returned.
DeleteAnswerIgnoresError(t) ==
    /\ tpc[t] = "d_record"
    /\ \E deleteError \in BOOLEAN :
         /\ user_sandboxes' = IF deleteError \/ ~Present(req[t].sandbox)
                              THEN user_sandboxes
                              ELSE [user_sandboxes EXCEPT ![req[t].sandbox] = DeletedRow]
         /\ returned' = [NoResult EXCEPT !.op = "delete", !.thread = t,
                                         !.sandbox = req[t].sandbox,
                                         !.success = TRUE,
                                         !.processesKilled = req[t].processesKilled]
    /\ HandlerReturn(t)
    /\ UNCHANGED <<gpc, ports, firstPair, probeVars, portErrors, procs, closeErrors, activeTunnels, listeners, tkey, tport, tls,
                   served>>

\* The delete of the row answers: 500 on an error, otherwise the row is gone
\* and the handler answers success with the number of processes killed.
DeleteAnswer(t) ==
    /\ tpc[t] = "d_record"
    /\ \E deleteError \in BOOLEAN :
         /\ user_sandboxes' = IF deleteError \/ ~Present(req[t].sandbox)
                              THEN user_sandboxes
                              ELSE [user_sandboxes EXCEPT ![req[t].sandbox] = DeletedRow]
         /\ returned' = [NoResult EXCEPT !.op = "delete", !.thread = t,
                                         !.sandbox = req[t].sandbox,
                                         !.success = ~deleteError,
                                         !.processesKilled =
                                             IF deleteError THEN 0
                                             ELSE req[t].processesKilled]
    /\ HandlerReturn(t)
    /\ UNCHANGED <<gpc, ports, firstPair, probeVars, portErrors, procs, closeErrors, activeTunnels, listeners, tkey, tport, tls,
                   served>>

\* --------------------------------------------------- /api/create-theme
\* The route starting the dev server without asking for ports first.
AfterStepWithoutPorts ==
    [c_folder |-> "c_created", c_created |-> "c_pulling", c_pulling |-> "c_pull",
     c_pull |-> "c_pulled", c_pulled |-> "c_pushing", c_pushing |-> "c_push",
     c_push |-> "c_themeId", c_themeId |-> "c_pushed",
     c_pushed |-> "c_settingClaude", c_settingClaude |-> "c_claude",
     c_claude |-> "c_settingDev", c_saveUrl |-> "c_session", c_session |-> "c_ready"]

\* The steps of the create route in the order of its awaits, each with the
\* step after it when it succeeds.
AfterStep ==
    [c_folder |-> "c_created", c_created |-> "c_pulling", c_pulling |-> "c_pull",
     c_pull |-> "c_pulled", c_pulled |-> "c_pushing", c_pushing |-> "c_push",
     c_push |-> "c_themeId", c_themeId |-> "c_pushed",
     c_pushed |-> "c_settingClaude", c_settingClaude |-> "c_claude",
     c_claude |-> "c_ports", c_saveUrl |-> "c_session", c_session |-> "c_ready"]

\* The route writing 'pulling-theme' once more where 'theme-pulled' is due.
StatusAtRepeating ==
    [c_created |-> "created", c_pulling |-> "pulling-theme",
     c_pulled |-> "pulling-theme", c_pushing |-> "pushing-theme",
     c_pushed |-> "theme-pushed", c_settingClaude |-> "setting-up-claude",
     c_settingDev |-> "setting-up-dev-server", c_ready |-> "ready",
     c_error |-> "error"]

\* The status each updateSandboxStatus call of the route writes.
StatusAt ==
    [c_created |-> "created", c_pulling |-> "pulling-theme",
     c_pulled |-> "theme-pulled", c_pushing |-> "pushing-theme",
     c_pushed |-> "theme-pushed", c_settingClaude |-> "setting-up-claude",
     c_settingDev |-> "setting-up-dev-server", c_ready |-> "ready",
     c_error |-> "error"]

\* updateSandboxStatus(sandboxId, status): the status of the row with that
\* id, if there is one.
updateSandboxStatus(sandboxId, status) ==
    IF Present(sandboxId)
    THEN [user_sandboxes EXCEPT ![sandboxId].status = status]
    ELSE user_sandboxes

\* The route's await of updateSandboxStatus at the step caller t is at: the
\* update answers, with an error the route does not look at.
WriteStatus(t) ==
    \E error \in BOOLEAN :
        user_sandboxes' = IF error THEN user_sandboxes
                          ELSE updateSandboxStatus(req[t].sandbox, StatusAt[tpc[t]])

\* The route answers its request.
CreateAnswer(t, success, via) ==
    /\ HandlerReturn(t)
    /\ returned' = [NoResult EXCEPT !.op = "create", !.thread = t,
                                    !.sandbox = req[t].sandbox,
                                    !.success = success, !.via = via]

\* The shops the create requests of the model name; a row that
\* InsertSandbox put there is of a shop no request names.
Shops == {"shop"}

\* findUserSandbox(userId, shopifyUrl): a row of that user and shop, or null.
findUserSandbox(userId, shopifyUrl) ==
    LET found == {s \in SandboxIds : /\ Present(s)
                                     /\ UserOf(s) = userId
                                     /\ user_sandboxes[s].shopify_url = shopifyUrl}
    IN  IF found = {} THEN NULL ELSE CHOOSE s \in found : TRUE

\* The ids of the rows whose insert is under way.
Inserting == {req[t].sandbox : t \in {u \in Threads : tpc[u] = "c_insert"}}

\* The ids the datastore can give the next row of that user: the model
\* names the users by the ids of their rows.
FreeIds(userId) ==
    {s \in SandboxIds : /\ user_sandboxes[s].state = "absent"
                        /\ s \notin Inserting
                        /\ UserOf(s) = userId}

\* The id the row of the create request gets: the first one.
NextSandboxId(userId) == CHOOSE s \in FreeIds(userId) : \A u \in FreeIds(userId) : s <= u

\* findUserSandbox answers the create request for (userId, storeUrl): 500
\* on an error, 409 when the user has a row for the shop, otherwise
\* createUserSandbox is called.
CreateFetch(t, userId, storeUrl) ==
    /\ tpc[t] = "idle"
    /\ served < MaxRequests
    /\ \E fetchError \in BOOLEAN :
         LET existingSandbox == findUserSandbox(userId, storeUrl)
         IN  IF fetchError \/ existingSandbox # NULL
             THEN /\ UNCHANGED <<tpc, req, served>>
                  /\ returned' = [NoResult EXCEPT !.op = "create", !.thread = t,
                                       !.sandbox = IF fetchError THEN NULL ELSE existingSandbox,
                                       !.via = IF fetchError THEN "500" ELSE "409"]
             ELSE /\ FreeIds(userId) # {}
                  /\ tpc' = [tpc EXCEPT ![t] = "c_insert"]
                  /\ req' = [req EXCEPT ![t] =
                                [NoRequest EXCEPT !.op = "create",
                                                  !.sandbox = NextSandboxId(userId),
                                                  !.storeUrl = storeUrl]]
                  /\ served' = served + 1
                  /\ returned' = NoResult
    /\ UNCHANGED <<portVars, probeVars, portErrors, procs, closeErrors, activeTunnels, listeners, tkey, tport, tls>>

\* createUserSandbox answers: 500 on an error, otherwise the row is there,
\* with status null and without ports.
CreateInsert(t) ==
    /\ tpc[t] = "c_insert"
    /\ user_sandboxes[req[t].sandbox].state = "absent"
    /\ \E createError \in BOOLEAN :
         IF createError
         THEN /\ CreateAnswer(t, FALSE, "500")
              /\ UNCHANGED user_sandboxes
         ELSE /\ user_sandboxes' =
                    [user_sandboxes EXCEPT ![req[t].sandbox].state = "present",
                                           ![req[t].sandbox].shopify_url = req[t].storeUrl]
              /\ tpc' = [tpc EXCEPT ![t] = "c_folder"]
              /\ UNCHANGED req
              /\ returned' = NoResult
    /\ UNCHANGED <<gpc, ports, firstPair, probeVars, portErrors, procs, closeErrors, activeTunnels, listeners, tkey, tport, tls,
                   served>>

\* createThemeFolder, pullTheme, pushTheme (with a theme id) or setupClaude
\* answers: on a failure the route goes to write status 'error'.
CreateTheme(t) ==
    /\ tpc[t] \in {"c_folder", "c_pull", "c_push", "c_claude"}
    /\ \E success \in BOOLEAN :
         tpc' = [tpc EXCEPT ![t] = IF success THEN AfterStep[tpc[t]] ELSE "c_error"]
    /\ UNCHANGED <<portVars, probeVars, portErrors, procs, closeErrors, served, activeTunnels, listeners, tkey, tport, tls, req>>
    /\ returned' = NoResult

\* updateSandboxThemeId or createSession answers: a failure is logged.
CreateLogged(t) ==
    /\ tpc[t] \in {"c_themeId", "c_session"}
    /\ tpc' = [tpc EXCEPT ![t] = AfterStep[tpc[t]]]
    /\ UNCHANGED <<portVars, probeVars, portErrors, procs, closeErrors, served, activeTunnels, listeners, tkey, tport, tls, req>>
    /\ returned' = NoResult

\* One of the status writes between the steps answers.
CreateStatus(t) ==
    /\ tpc[t] \in {"c_created", "c_pulling", "c_pulled", "c_pushing", "c_pushed",
                   "c_settingClaude"}
    /\ WriteStatus(t)
    /\ tpc' = [tpc EXCEPT ![t] = AfterStep[tpc[t]]]
    /\ req' = [req EXCEPT ![t].written = Append(@, StatusAt[tpc[t]])]
    /\ UNCHANGED <<gpc, ports, firstPair, probeVars, portErrors, procs, closeErrors, activeTunnels, listeners, tkey, tport, tls,
                   served>>
    /\ returned' = NoResult

\* The route awaits getPortsForSandbox for its row.
Allocating(s) == \E t \in Threads : tpc[t] = "c_ports" /\ req[t].sandbox = s

\* getPortsForSandbox has returned to a route, whose continuation is next.
PortsAnswerDue ==
    /\ returned.op = "getPortsForSandbox"
    /\ Allocating(returned.sandbox)

\* The continuation without `if (!ports)`: the route goes on to
\* startDevServer with whatever getPortsForSandbox returned.
CreatePortsAnswerUnchecked(t) ==
    /\ tpc[t] = "c_ports"
    /\ returned.op = "getPortsForSandbox"
    /\ returned.sandbox = req[t].sandbox
    /\ tpc' = [tpc EXCEPT ![t] = "c_settingDev"]
    /\ req' = [req EXCEPT ![t].devPort = returned.ports.devPort,
                           ![t].proxyPort = returned.ports.proxyPort,
                           ![t].done = Append(@, "ports")]
    /\ portErrors' = IF returned.ports = NoPorts
                     THEN [portErrors EXCEPT ![req[t].sandbox] = returned.via]
                     ELSE portErrors
    /\ UNCHANGED <<portVars, probeVars, procs, closeErrors, served, activeTunnels, listeners, tkey, tport, tls>>
    /\ returned' = NoResult

\* The continuation of the route when getPortsForSandbox has returned:
\* without ports it goes to write status 'error'.
CreatePortsAnswer(t) ==
    /\ tpc[t] = "c_ports"
    /\ returned.op = "getPortsForSandbox"
    /\ returned.sandbox = req[t].sandbox
    /\ IF returned.ports = NoPorts
       THEN /\ tpc' = [tpc EXCEPT ![t] = "c_error"]
            /\ UNCHANGED req
       ELSE /\ tpc' = [tpc EXCEPT ![t] = "c_settingDev"]
            /\ req' = [req EXCEPT ![t].devPort = returned.ports.devPort,
                                   ![t].proxyPort = returned.ports.proxyPort,
                                   ![t].done = Append(@, "ports")]
    /\ portErrors' = IF returned.ports = NoPorts
                     THEN [portErrors EXCEPT ![req[t].sandbox] = returned.via]
                     ELSE portErrors
    /\ UNCHANGED <<portVars, probeVars, procs, closeErrors, served, activeTunnels, listeners, tkey, tport, tls>>
    /\ returned' = NoResult

\* Status 'setting-up-dev-server' is written and startDevServer is called:
\* it spawns dev-theme.sh with the ports and awaits its startup.
CreateStartDevServer(t) ==
    /\ tpc[t] = "c_settingDev"
    /\ WriteStatus(t)
    /\ tpc' = [tpc EXCEPT ![t] = "sd_wait"]
    /\ req' = [req EXCEPT ![t].done = Append(@, "spawn"),
                           ![t].old = BoundTo(req[t].devPort, req[t].proxyPort),
                           ![t].written = Append(@, StatusAt[tpc[t]])]
    /\ UNCHANGED <<gpc, ports, firstPair, probeVars, portErrors, procs, closeErrors, activeTunnels, listeners, tkey, tport, tls,
                   served>>
    /\ returned' = NoResult

\* The route saves the preview URL; a failure is logged.
CreateSaveUrl(t) ==
    /\ tpc[t] = "c_saveUrl"
    /\ \E error \in BOOLEAN :
         user_sandboxes' = IF error THEN user_sandboxes
                           ELSE updateSandboxPreviewUrl(req[t].sandbox, PreviewUrl(t))
    /\ tpc' = [tpc EXCEPT ![t] = AfterStep[tpc[t]]]
    /\ UNCHANGED <<gpc, ports, firstPair, probeVars, portErrors, procs, closeErrors, activeTunnels, listeners, tkey, tport, tls,
                   served, req>>
    /\ returned' = NoResult

\* Status 'ready' is written and the route answers success.
CreateReady(t) ==
    /\ tpc[t] = "c_ready"
    /\ WriteStatus(t)
    /\ CreateAnswer(t, TRUE, "ready")
    /\ UNCHANGED <<gpc, ports, firstPair, probeVars, portErrors, procs, closeErrors, activeTunnels, listeners, tkey, tport, tls,
                   served>>

\* Status 'error' is written and the route answers 500.
CreateError(t) ==
    /\ tpc[t] = "c_error"
    /\ WriteStatus(t)
    /\ CreateAnswer(t, FALSE, "500")
    /\ UNCHANGED <<gpc, ports, firstPair, probeVars, portErrors, procs, closeErrors, activeTunnels, listeners, tkey, tport, tls,
                   served>>

\* ------------------------------------------------------------------- specs
Init ==
    /\ user_sandboxes = [s \in SandboxIds |-> NoRow]
    /\ gpc = [s \in SandboxIds |-> "idle"]
    /\ ports = [s \in SandboxIds |-> NoPorts]
    /\ returned = NoResult
    /\ firstPair = [s \in SandboxIds |-> NoPorts]
    /\ activeTunnels = [k \in TunnelKeys |-> NoTunnel]
    /\ listeners = [h \in ListenerIds |-> NoListener]
    /\ tpc = [t \in Threads |-> "idle"]
    /\ tkey = [t \in Threads |-> ""]
    /\ tport = [t \in Threads |-> NULL]
    /\ tls = [t \in Threads |-> {}]
    /\ req = [t \in Threads |-> NoRequest]
    /\ served = 0
    /\ closeErrors = [t \in Threads |-> {}]
    /\ attempts = 0
    /\ probing = "idle"
    /\ portErrors = [s \in SandboxIds |-> "none"]
    /\ procs = [p \in Pids |-> NoProcess]

Next ==
    \/ \E s \in SandboxIds : GetPortsSelect(s)
    \/ \E s \in SandboxIds : GetPortsFind(s)
    \/ \E s \in SandboxIds : GetPortsUpdate(s)
    \/ \E s \in SandboxIds : InsertSandbox(s)
    \/ \E s \in SandboxIds : DeleteRecord(s)

Spec == Init /\ [][Next]_vars

\* The calling layer serializes: nothing else runs while a call is in flight.
NoCallInFlight == \A s \in SandboxIds : gpc[s] = "idle"

NextSerial ==
    \/ \E s \in SandboxIds : NoCallInFlight /\ GetPortsSelect(s)
    \/ \E s \in SandboxIds : GetPortsFind(s)
    \/ \E s \in SandboxIds : GetPortsUpdate(s)
    \/ \E s \in SandboxIds : NoCallInFlight /\ InsertSandbox(s)
    \/ \E s \in SandboxIds : NoCallInFlight /\ DeleteRecord(s)

SpecSerial == Init /\ [][NextSerial]_vars

\* The tunnel service under any interleaving of its callers.
NextTunnel ==
    \/ \E t \in Threads : CreateTunnelCall(t)
    \/ \E t \in Threads : ForwardResolve(t)
    \/ \E t \in Threads : ForwardReject(t)
    \/ \E t \in Threads : ForwardTimeout(t)
    \/ \E h \in ListenerIds : ForwardSettlesLate(h)
    \/ \E t \in Threads : CloseTunnelCall(t)
    \/ \E t \in Threads : CloseResolve(t)
    \/ \E t \in Threads : CloseReject(t)
    \/ \E t \in Threads : CloseAllCall(t)
    \/ \E t \in Threads : CloseAllSettle(t)
    \/ \E t \in Threads : CloseAllFinish(t)

SpecTunnel == Init /\ [][NextTunnel]_vars

\* The tunnel service up to the exit of the process on SIGINT or SIGTERM.
NextShutdown ==
    \/ \E t \in Threads : CreateTunnelCall(t)
    \/ \E t \in Threads : ForwardResolve(t)
    \/ \E t \in Threads : ForwardReject(t)
    \/ \E t \in Threads : ForwardTimeout(t)
    \/ \E h \in ListenerIds : ~Exited /\ ForwardSettlesLate(h)
    \/ \E t \in Threads : CloseTunnelCall(t)
    \/ \E t \in Threads : CloseResolve(t)
    \/ \E t \in Threads : CloseReject(t)
    \/ \E t \in Threads : Signal(t)
    \/ \E t \in Threads : CleanupSettle(t)
    \/ \E t \in Threads : CleanupExit(t)

SpecShutdown == Init /\ [][NextShutdown]_vars

\* The probe loop of one startDevServer call; every socket attempt settles
\* (its timeout is set) and every timer fires.
NextProbe ==
    \/ ProbeStart
    \/ ProbeConnects
    \/ ProbeAttemptFails
    \/ ProbeRetry

SpecProbe == Init /\ [][NextProbe]_vars /\ WF_vars(NextProbe)

\* The caller that serves the requests which come one at a time.
FirstCaller == CHOOSE t \in Threads : \A u \in Threads : t <= u

\* The sandboxes' lifecycle: rows are inserted and get their ports, the
\* refresh and the delete handler serve requests, under any interleaving;
\* the delete requests come one at a time, and the host's processes are
\* not followed (no port has one).
NextLifecycle ==
    \/ \E s \in SandboxIds : InsertSandbox(s)
    \/ \E s \in SandboxIds : GetPortsSelect(s)
    \/ \E s \in SandboxIds : GetPortsFind(s)
    \/ \E s \in SandboxIds : GetPortsUpdate(s)
    \/ \E t \in Threads : RefreshFetch(t)
    \/ \E t \in Threads : RefreshDevServer(t)
    \/ \E t \in Threads : StartupAnswer(t)
    \/ \E t \in Threads : ProbeResolves(t)
    \/ \E t \in Threads : ProbeDone(t)
    \/ \E t \in Threads : RefreshSaveUrl(t)
    \/ DeleteFetch(FirstCaller)
    \/ \E t \in Threads : DeleteListDev(t)
    \/ \E t \in Threads : DeleteListProxy(t)
    \/ \E t \in Threads : DeleteCloseTunnel(t)
    \/ \E t \in Threads : DeleteThemeFolder(t)
    \/ \E t \in Threads : DeleteTempFiles(t)
    \/ \E t \in Threads : DeleteAnswer(t)
    \/ \E t \in Threads : ForwardResolve(t)
    \/ \E t \in Threads : ForwardReject(t)
    \/ \E t \in Threads : ForwardTimeout(t)
    \/ \E h \in ListenerIds : ForwardSettlesLate(h)
    \/ \E t \in Threads : CloseResolve(t)
    \/ \E t \in Threads : CloseReject(t)

SpecLifecycle == Init /\ [][NextLifecycle]_vars

\* The create and the refresh route serve requests under any interleaving,
\* caller t the create requests of user UserOf(t); the continuation of a
\* route whose getPortsForSandbox call has returned runs before anything
\* else.
NextCreate ==
    \/ \E t \in Threads : CreatePortsAnswer(t)
    \/ ~PortsAnswerDue /\ \E t \in Threads : \E storeUrl \in Shops : CreateFetch(t, UserOf(t), storeUrl)
    \/ ~PortsAnswerDue /\ \E t \in Threads : CreateInsert(t)
    \/ ~PortsAnswerDue /\ \E t \in Threads : CreateTheme(t)
    \/ ~PortsAnswerDue /\ \E t \in Threads : CreateLogged(t)
    \/ ~PortsAnswerDue /\ \E t \in Threads : CreateStatus(t)
    \/ ~PortsAnswerDue /\ \E s \in SandboxIds : Allocating(s) /\ GetPortsSelect(s)
    \/ ~PortsAnswerDue /\ \E s \in SandboxIds : GetPortsFind(s)
    \/ ~PortsAnswerDue /\ \E s \in SandboxIds : GetPortsUpdate(s)
    \/ ~PortsAnswerDue /\ \E t \in Threads : CreateStartDevServer(t)
    \/ ~PortsAnswerDue /\ \E t \in Threads : ChildExitsEarly(t)
    \/ ~PortsAnswerDue /\ \E t \in Threads : StartupAnswer(t)
    \/ ~PortsAnswerDue /\ \E t \in Threads : ProbeResolves(t)
    \/ ~PortsAnswerDue /\ \E t \in Threads : ProbeDone(t)
    \/ ~PortsAnswerDue /\ \E t \in Threads : CreateSaveUrl(t)
    \/ ~PortsAnswerDue /\ \E t \in Threads : CreateReady(t)
    \/ ~PortsAnswerDue /\ \E t \in Threads : CreateError(t)
    \/ ~PortsAnswerDue /\ \E t \in Threads : RefreshFetch(t)
    \/ ~PortsAnswerDue /\ \E t \in Threads : RefreshDevServer(t)
    \/ ~PortsAnswerDue /\ \E t \in Threads : RefreshSaveUrl(t)
    \/ ~PortsAnswerDue /\ \E t \in Threads : ForwardResolve(t)
    \/ ~PortsAnswerDue /\ \E t \in Threads : ForwardReject(t)
    \/ ~PortsAnswerDue /\ \E t \in Threads : ForwardTimeout(t)
    \/ ~PortsAnswerDue /\ \E h \in ListenerIds : ForwardSettlesLate(h)
    \/ ~PortsAnswerDue /\ \E t \in Threads : CloseResolve(t)
    \/ ~PortsAnswerDue /\ \E t \in Threads : CloseReject(t)

SpecCreate == Init /\ [][NextCreate]_vars

\* No request is being served.
Quiet == \A t \in Threads : tpc[t] = "idle"

\* The pool fills up and empties again around the create route: before the
\* first request rows are inserted and get their ports, between the requests
\* rows are deleted, one call at a time; the create requests are of any
\* user, one at a time.
NextCapacity ==
    \/ \E t \in Threads : CreatePortsAnswer(t)
    \/ served = 0 /\ Quiet /\ NoCallInFlight /\ \E s \in SandboxIds : InsertSandbox(s)
    \/ served = 0 /\ Quiet /\ NoCallInFlight /\ \E s \in SandboxIds : GetPortsSelect(s)
    \/ Quiet /\ NoCallInFlight /\ \E s \in SandboxIds : DeleteRecord(s)
    \/ ~PortsAnswerDue /\ \E s \in SandboxIds : Allocating(s) /\ GetPortsSelect(s)
    \/ ~PortsAnswerDue /\ \E s \in SandboxIds : GetPortsFind(s)
    \/ ~PortsAnswerDue /\ \E s \in SandboxIds : GetPortsUpdate(s)
    \/ Quiet /\ NoCallInFlight /\ \E userId \in UserIds : \E storeUrl \in Shops :
                            CreateFetch(FirstCaller, userId, storeUrl)
    \/ ~PortsAnswerDue /\ \E t \in Threads : CreateInsert(t)
    \/ ~PortsAnswerDue /\ \E t \in Threads : CreateTheme(t)
    \/ ~PortsAnswerDue /\ \E t \in Threads : CreateLogged(t)
    \/ ~PortsAnswerDue /\ \E t \in Threads : CreateStatus(t)
    \/ ~PortsAnswerDue /\ \E t \in Threads : CreateStartDevServer(t)
    \/ ~PortsAnswerDue /\ \E t \in Threads : ChildExitsEarly(t)
    \/ ~PortsAnswerDue /\ \E t \in Threads : StartupAnswer(t)
    \/ ~PortsAnswerDue /\ \E t \in Threads : ProbeResolves(t)
    \/ ~PortsAnswerDue /\ \E t \in Threads : ProbeDone(t)
    \/ ~PortsAnswerDue /\ \E t \in Threads : CreateSaveUrl(t)
    \/ ~PortsAnswerDue /\ \E t \in Threads : CreateReady(t)
    \/ ~PortsAnswerDue /\ \E t \in Threads : CreateError(t)
    \/ ~PortsAnswerDue /\ \E t \in Threads : ForwardResolve(t)
    \/ ~PortsAnswerDue /\ \E t \in Threads : ForwardReject(t)
    \/ ~PortsAnswerDue /\ \E t \in Threads : ForwardTimeout(t)
    \/ ~PortsAnswerDue /\ \E h \in ListenerIds : ForwardSettlesLate(h)

SpecCapacity == Init /\ [][NextCapacity]_vars

\* The ports of the pool.
PoolPorts == {DEV_PORT_START + i : i \in Offsets} \cup {PROXY_PORT_START + i : i \in Offsets}

\* What the setup of a run has not got to yet.
NoListeners == \A h \in ListenerIds : listeners[h] = NoListener
NoProcesses == \A p \in Pids : procs[p] = NoProcess

\* Caller t's createTunnel call is for the row of sandbox s and its proxy
\* port.
TunnelOf(s, t) ==
    /\ HasPorts(s)
    /\ tkey[t] = getTunnelKey(UserOf(s), SandboxName(s))
    /\ tport[t] = user_sandboxes[s].proxy_port

\* Process p is on a port of the row of a request that is being served.
OnRequestedPort(p) ==
    \E t \in Threads : /\ tpc[t] # "idle"
                        /\ procs[p].port \in {req[t].devPort, req[t].proxyPort}

\* The ports above those that have a process.
NextPorts == {port \in PoolPorts : \A p \in Pids : Alive(p) => procs[p].port < port}

\* The delete handler on a host with processes. Before the first request,
\* one call at a time: rows are inserted and get their ports, then tunnels
\* are opened for rows on their proxy ports, then processes bind ports of
\* the pool, in the order of the ports. Then one delete request is served,
\* while the processes on the ports of its row end.
NextDelete ==
    \/ served = 0 /\ Quiet /\ NoCallInFlight /\ NoListeners /\ NoProcesses
           /\ \E s \in SandboxIds : InsertSandbox(s)
    \/ served = 0 /\ Quiet /\ NoCallInFlight /\ NoListeners /\ NoProcesses
           /\ \E s \in SandboxIds : GetPortsSelect(s)
    \/ \E s \in SandboxIds : GetPortsFind(s)
    \/ \E s \in SandboxIds : GetPortsUpdate(s)
    \/ served = 0 /\ NoCallInFlight /\ NoProcesses /\ CreateTunnelCall(FirstCaller)
           /\ \E s \in SandboxIds : TunnelOf(s, FirstCaller)'
    \/ ForwardResolve(FirstCaller) /\ returned'.success
    \/ served = 0 /\ Quiet /\ NoCallInFlight /\ \E port \in NextPorts : ProcessBinds(port)
    \/ \E p \in Pids : OnRequestedPort(p) /\ ProcessExits(p)
    \/ served = 0 /\ Quiet /\ NoCallInFlight /\ DeleteFetch(FirstCaller)
    \/ \E t \in Threads : DeleteListDev(t)
    \/ \E t \in Threads : DeleteKillDev(t)
    \/ \E t \in Threads : DeleteListProxy(t)
    \/ \E t \in Threads : DeleteKillProxy(t)
    \/ \E t \in Threads : DeleteCloseTunnel(t)
    \/ \E t \in Threads : CloseResolve(t)
    \/ \E t \in Threads : CloseReject(t)
    \/ \E t \in Threads : DeleteThemeFolder(t)
    \/ \E t \in Threads : DeleteTempFiles(t)
    \/ \E t \in Threads : DeleteAnswer(t)
    \/ served = 1 /\ Quiet /\ NoCallInFlight /\ \E s \in SandboxIds : GetPortsSelect(s)

SpecDelete == Init /\ [][NextDelete]_vars

\* The port is one of a row.
RowPort(port) ==
    \E s \in SandboxIds :
        HasPorts(s) /\ port \in {user_sandboxes[s].dev_port, user_sandboxes[s].proxy_port}

\* The refresh route on a host with processes. Before the first request,
\* one call at a time: rows are inserted and get their ports, then a tunnel
\* is opened for a row on its proxy port, then processes that earlier
\* starts left behind bind ports of the rows, in the order of the ports.
\* Then one refresh request is served, or rejected, with the script it
\* spawned, which is followed while the request is served. A
\* process that was sent SIGTERM exits when it gets to it.
NextHost ==
    \/ served = 0 /\ Quiet /\ NoCallInFlight /\ NoListeners /\ NoProcesses
           /\ \E s \in SandboxIds : InsertSandbox(s)
    \/ served = 0 /\ Quiet /\ NoCallInFlight /\ NoListeners /\ NoProcesses
           /\ \E s \in SandboxIds : GetPortsSelect(s)
    \/ \E s \in SandboxIds : GetPortsFind(s)
    \/ \E s \in SandboxIds : GetPortsUpdate(s)
    \/ served = 0 /\ NoCallInFlight /\ NoListeners /\ NoProcesses /\ CreateTunnelCall(FirstCaller)
           /\ \E s \in SandboxIds : TunnelOf(s, FirstCaller)'
    \/ served = 0 /\ Quiet /\ NoCallInFlight
           /\ \E port \in NextPorts : RowPort(port) /\ ProcessBinds(port)
    \/ \E p \in Pids : procs[p].st = "signalled" /\ ProcessExits(p)
    \/ served = 0 /\ Quiet /\ NoCallInFlight /\ RefreshFetchAnswered(FirstCaller)
    \/ \E t \in Threads : RefreshDevServer(t)
    \/ \E t \in Threads : CloseResolve(t)
    \/ \E t \in Threads : CloseReject(t)
    \/ \E t \in Threads : ScriptExitsEarly(t)
    \/ \E t \in Threads : ScriptKillDev(t)
    \/ \E t \in Threads : ScriptKillProxy(t)
    \/ \E t \in Threads : ScriptInfo(t)
    \/ \E t \in Threads : ScriptStartShopify(t)
    \/ \E t \in Threads : ScriptCheckShopify(t)
    \/ \E t \in Threads : ScriptStartProxy(t)
    \/ \E t \in Threads : ScriptCheckProxy(t)
    \/ \E t \in Threads : StartupAnswerOfScript(t)
    \/ \E t \in Threads : ProbeOfHost(t)
    \/ \E t \in Threads : ProbeDone(t)
    \/ \E t \in Threads : ForwardResolve(t)
    \/ \E t \in Threads : ForwardReject(t)
    \/ \E t \in Threads : ForwardTimeout(t)
    \/ \E t \in Threads : RefreshSaveUrl(t)

SpecHost == Init /\ [][NextHost]_vars

\* The create route on a host with processes, up to the startup wait of
\* startDevServer: creates under any interleaving, each with the script it
\* spawned, which is followed while startDevServer waits for it; the theme
\* steps go through. A process that was sent SIGTERM exits when it gets to
\* it.
NextRace ==
    \/ \E t \in Threads : CreatePortsAnswer(t)
    \/ ~PortsAnswerDue /\ \E t \in Threads : \E storeUrl \in Shops : CreateFetch(t, UserOf(t), storeUrl)
    \/ ~PortsAnswerDue /\ \E t \in Threads : CreateInsert(t)
    \/ ~PortsAnswerDue /\ \E t \in Threads : CreateTheme(t) /\ tpc'[t] # "c_error"
    \/ ~PortsAnswerDue /\ \E t \in Threads : CreateLogged(t)
    \/ ~PortsAnswerDue /\ \E t \in Threads : CreateStatus(t)
    \/ ~PortsAnswerDue /\ \E s \in SandboxIds : Allocating(s) /\ GetPortsSelect(s)
    \/ ~PortsAnswerDue /\ \E s \in SandboxIds : GetPortsFind(s)
    \/ ~PortsAnswerDue /\ \E s \in SandboxIds : GetPortsUpdate(s)
    \/ ~PortsAnswerDue /\ \E t \in Threads : CreateStartDevServer(t)
    \/ ~PortsAnswerDue /\ \E t \in Threads : ScriptExitsEarly(t)
    \/ ~PortsAnswerDue /\ \E t \in Threads : ScriptKillDev(t)
    \/ ~PortsAnswerDue /\ \E t \in Threads : ScriptKillProxy(t)
    \/ ~PortsAnswerDue /\ \E t \in Threads : ScriptInfo(t)
    \/ ~PortsAnswerDue /\ \E t \in Threads : ScriptStartShopify(t)
    \/ ~PortsAnswerDue /\ \E t \in Threads : ScriptCheckShopify(t)
    \/ ~PortsAnswerDue /\ \E t \in Threads : ScriptStartProxy(t)
    \/ ~PortsAnswerDue /\ \E t \in Threads : ScriptCheckProxy(t)
    \/ ~PortsAnswerDue /\ \E p \in Pids : procs[p].st = "signalled" /\ ProcessExits(p)
    \/ ~PortsAnswerDue /\ \E t \in Threads : CreateError(t)

SpecRace == Init /\ [][NextRace]_vars

\* ------------------------------------------------------------ properties
RowPair(s) == [devPort |-> user_sandboxes[s].dev_port,
               proxyPort |-> user_sandboxes[s].proxy_port]

PairAt(i) == [devPort |-> DEV_PORT_START + i, proxyPort |-> PROXY_PORT_START + i]

\* Two distinct rows hold a common dev port or a common proxy port.
SharePort(s, t) ==
    /\ s # t
    /\ Present(s) /\ Present(t)
    /\ \/ user_sandboxes[s].dev_port # NULL
          /\ user_sandboxes[s].dev_port = user_sandboxes[t].dev_port
       \/ user_sandboxes[s].proxy_port # NULL
          /\ user_sandboxes[s].proxy_port = user_sandboxes[t].proxy_port

\* Two distinct rows hold the same pair.
Collide(s, t) == s # t /\ HasPorts(s) /\ HasPorts(t) /\ RowPair(s) = RowPair(t)

\* C1: with every getPortsForSandbox call run atomically (SpecSerial), however
\* calls and row deletions follow each other, no two distinct rows hold the
\* same dev_port and no two hold the same proxy_port.
C1_PortUniqueness == \A s, t \in SandboxIds : ~SharePort(s, t)

\* C1's case: two rows hold pairs after a row that had held one was deleted.
C1_Witness ==
    \E s, t, u \in SandboxIds :
        /\ s # t /\ HasPorts(s) /\ HasPorts(t)
        /\ user_sandboxes[u].state = "deleted" /\ firstPair[u] # NoPorts

\* The update of call s is applied in this step (no error, the row is there).
UpdateApplied(s) ==
    /\ gpc[s] = "update" /\ gpc'[s] = "idle"
    /\ returned'.sandbox = s /\ returned'.via = "allocated"
    /\ Present(s)

\* C2: port allocation is an unsynchronized read-then-write. When the calls
\* for two distinct sandboxes have both run the pool query and picked the same
\* pair before either ran its update, the first update applied persists the
\* pair and leaves the other call as it was; an update applied while another
\* row already holds the picked pair is not rejected and persists the same
\* pair a second time; and no later step changes either row while both exist.
C2_FirstWrite ==
    \A s, t \in SandboxIds :
        (/\ s # t /\ gpc[t] = "update" /\ ports[s] = ports[t]
         /\ UpdateApplied(s))
        => /\ HasPorts(s)' /\ RowPair(s)' = ports[s]
           /\ gpc'[t] = "update" /\ ports'[t] = ports[t]

C2_SecondWrite ==
    \A s, t \in SandboxIds :
        (/\ s # t /\ HasPorts(s) /\ RowPair(s) = ports[t]
         /\ UpdateApplied(t))
        => Collide(s, t)'

C2_NoRepair ==
    \A s, t \in SandboxIds :
        Collide(s, t) /\ Present(s)' /\ Present(t)' => Collide(s, t)'

C2_UnsynchronizedReadThenWrite ==
    [][C2_FirstWrite /\ C2_SecondWrite /\ C2_NoRepair]_vars

\* C2's case: both calls have returned and the two rows hold the same pair.
C2_Witness ==
    \E s, t \in SandboxIds :
        Collide(s, t) /\ gpc[s] = "idle" /\ gpc[t] = "idle"

\* A pair of the pool: dev port and proxy port at one offset.
PoolPair(p) == \E i \in Offsets : p = PairAt(i)

\* C3: every pair findAvailablePortPair returns (the local `ports`), every
\* pair getPortsForSandbox returns and every pair a row holds is
\* (DEV_PORT_START + i, PROXY_PORT_START + i) for one offset i of the pool;
\* the two ranges are disjoint, so the two ports are never equal.
C3_Pairing ==
    /\ \A s \in SandboxIds :
         /\ ports[s] # NoPorts => PoolPair(ports[s])
         /\ HasPorts(s) => PoolPair(RowPair(s))
         /\ HasPorts(s) => user_sandboxes[s].dev_port # user_sandboxes[s].proxy_port
    /\ returned.ports # NoPorts => PoolPair(returned.ports)
    /\ (DEV_PORT_START..DEV_PORT_END) \cap (PROXY_PORT_START..PROXY_PORT_END) = {}

\* C3's case: a call returned the pair it allocated at an offset above 0.
C3_Witness ==
    /\ returned.via = "allocated"
    /\ returned.ports = PairAt(1)
    /\ HasPorts(returned.sandbox)

\* A step of a getPortsForSandbox call for s.
CallStep(s) ==
    \/ gpc'[s] # gpc[s]
    \/ returned'.op = "getPortsForSandbox" /\ returned'.sandbox = s

FreeOffsets ==
    { i \in Offsets :
        \A s \in SandboxIds :
            Present(s) => /\ user_sandboxes[s].dev_port # DEV_PORT_START + i
                          /\ user_sandboxes[s].proxy_port # PROXY_PORT_START + i }

Lowest(S) == CHOOSE i \in S : \A j \in S : i <= j

\* The pool query of call s is answered in this step.
FindAnswered(s) ==
    /\ gpc[s] = "find"
    /\ \/ gpc'[s] = "update"
       \/ gpc'[s] = "idle" /\ returned'.via # "queryError"

\* Rows that ever held a pair and are deleted.
FreedRows == { s \in SandboxIds : user_sandboxes[s].state = "deleted" /\ firstPair[s] # NoPorts }

\* C5: findAvailablePortPair, its pool query answered, returns the pair at
\* the smallest offset neither of whose ports is assigned, and null exactly
\* when every offset has a port assigned. So with serialized allocations and
\* no row with a pair deleted yet, the k rows with pairs hold the offsets
\* 0..k-1, and with all offsets taken the next allocation returns null; after
\* a deletion the next allocation returns the lowest freed offset.
C5_FindStep ==
    \A s \in SandboxIds :
        FindAnswered(s)
        => IF FreeOffsets = {}
           THEN gpc'[s] = "idle" /\ returned'.sandbox = s
                /\ returned'.via = "exhausted" /\ returned'.ports = NoPorts
           ELSE gpc'[s] = "update" /\ ports'[s] = PairAt(Lowest(FreeOffsets))

C5_Prefix ==
    FreedRows = {}
    => LET held == { s \in SandboxIds : HasPorts(s) }
       IN  { RowPair(s) : s \in held } = { PairAt(i) : i \in 0..(Cardinality(held) - 1) }

C7_BothOrNeither ==
    /\ \A s \in SandboxIds :
         (user_sandboxes[s].dev_port = NULL) <=> (user_sandboxes[s].proxy_port = NULL)
    /\ returned.via = "updateError"
       => /\ returned.ports = NoPorts
          /\ user_sandboxes[returned.sandbox].dev_port = NULL
          /\ user_sandboxes[returned.sandbox].proxy_port = NULL

\* C7's case: the update of a call failed while its row was there.
C7_Witness ==
    /\ returned.via = "updateError"
    /\ Present(returned.sandbox)

\* The ports the refresh of caller t works with.
RequestPorts(t) == [devPort |-> req[t].devPort, proxyPort |-> req[t].proxyPort]

\* Caller t serves a refresh that has spawned dev-theme.sh.
Restarted(t) ==
    /\ req[t].op = "refresh"
    /\ tpc[t] \in {"sd_wait", "sd_exited", "sd_probe", "sd_tunnel", "forward", "r_saveUrl"}

\* C6: once a row holds a pair, no step of a refresh, of a
\* getPortsForSandbox call or of a request for another sandbox changes or
\* clears it: after every step the row holds the same pair or is deleted.
\* And the ports a refresh hands to dev-theme.sh are the pair its row holds,
\* for as long as the row is there.
C6_PairKept ==
    \A s \in SandboxIds :
        HasPorts(s) =>
            \/ user_sandboxes'[s].state = "deleted"
            \/ HasPorts(s)' /\ RowPair(s)' = RowPair(s)

C6_RefreshOnPersistedPair ==
    \A t \in Threads :
        (req[t].op = "refresh" /\ Present(req[t].sandbox)) =>
            /\ HasPorts(req[t].sandbox)
            /\ RequestPorts(t) = RowPair(req[t].sandbox)

C6_PortStability == [][C6_PairKept]_vars /\ []C6_RefreshOnPersistedPair

\* C6's case: a refresh has restarted the servers of a sandbox on the pair
\* its first allocation returned and has its new tunnel, after the row of
\* another sandbox that held a pair was deleted.
C6_Witness ==
    \E t \in Threads :
        /\ Restarted(t) /\ tpc[t] = "r_saveUrl"
        /\ HasPorts(req[t].sandbox)
        /\ RequestPorts(t) = firstPair[req[t].sandbox]
        /\ \E u \in SandboxIds :
             /\ u # req[t].sandbox
             /\ user_sandboxes[u].state = "deleted"
             /\ firstPair[u] # NoPorts

\* ------------------------------------------------------- tunnel properties
HasTunnel(k) == activeTunnels[k] # NoTunnel

\* Caller t, idle before the step, returns from op on key k in the step.
ReturnsAtOnce(t, op, k) ==
    /\ tpc[t] = "idle"
    /\ returned'.thread = t
    /\ returned'.op = op
    /\ returned'.key = k

\* C8: a createTunnel call for a (userId, sandboxId) whose key has a registry
\* entry calls no forward on the provider, leaves the registry and the
\* provider's listeners as they are, and returns success with the URL of the
\* entry that is there.
C8_DedupReturnsExisting ==
    [][\A t \in Threads, k \in TunnelKeys :
          (tpc[t] = "idle" /\ HasTunnel(k)) =>
             /\ ~(tpc'[t] = "forward" /\ tkey'[t] = k)
             /\ ReturnsAtOnce(t, "createTunnel", k) =>
                   /\ returned'.success
                   /\ returned'.publicUrl = activeTunnels[k].url
                   /\ UNCHANGED <<activeTunnels, listeners>>]_vars

\* A createTunnel call has just answered from the entry that was there.
C8_Witness ==
    /\ returned.op = "createTunnel"
    /\ returned.via = "existing"
    /\ returned.success
    /\ HasTunnel(returned.key)
    /\ returned.publicUrl = activeTunnels[returned.key].url

OpenListeners(k) == { h \in ListenerIds : listeners[h].st = "open" /\ listeners[h].key = k }

\* C9: under every interleaving of createTunnel, closeTunnel and
\* closeAllTunnels calls (overlapping createTunnel calls for one key
\* included), at most one provider listener is open for a sandbox's key.
C9_AtMostOneOpenListener ==
    \A k \in TunnelKeys : Cardinality(OpenListeners(k)) <= 1

\* C10: a closeTunnel call for a key without a registry entry calls no close
\* on any listener, leaves the registry and the listeners as they are, and
\* returns false from its guard (nothing is thrown).
C10_CloseMissingReturnsFalse ==
    [][\A t \in Threads, k \in TunnelKeys :
          (tpc[t] = "idle" /\ ~HasTunnel(k)) =>
             /\ ~(tpc'[t] = "closing" /\ tkey'[t] = k)
             /\ ReturnsAtOnce(t, "closeTunnel", k) =>
                   /\ ~returned'.success
                   /\ returned'.via = "noTunnel"
                   /\ UNCHANGED <<activeTunnels, listeners>>]_vars

\* A closeTunnel call has just answered false for a key without an entry,
\* while another key has its tunnel.
C10_Witness ==
    /\ returned.op = "closeTunnel"
    /\ returned.via = "noTunnel"
    /\ ~returned.success
    /\ ~HasTunnel(returned.key)
    /\ \E k \in TunnelKeys : HasTunnel(k) /\ listeners[activeTunnels[k].listener].st = "open"

\* The handle (listener) of the entry of key k.
HandleOf(k) == activeTunnels[k].listener

\* closeTunnel or closeAllTunnels removes the entry of key k in this step.
Removed(k) == HasTunnel(k) /\ ~HasTunnel(k)'

\* The statement of C11 as it was claimed: an entry is removed only with its
\* handle closed, and a handle is closed only as its entry is removed.
C11_CloseBeforeRemove ==
    /\ [][\A k \in TunnelKeys : Removed(k) => listeners'[HandleOf(k)].st = "closed"]_vars
    /\ [](\A k \in TunnelKeys : HasTunnel(k) => listeners[HandleOf(k)].st = "open")

\* A closeTunnel call for k returns true in this step: the close() it
\* awaited has resolved.
ByCloseTunnel(k) ==
    /\ returned'.op = "closeTunnel" /\ returned'.key = k /\ returned'.success
    /\ tpc[returned'.thread] = "closing"
    /\ \A h \in tls[returned'.thread] : listeners'[h].st = "closed"

\* A closeAllTunnels call returns in this step, all its close() calls settled.
ByCloseAll ==
    /\ returned'.op = "closeAllTunnels"
    /\ tpc[returned'.thread] = "closingAll"
    /\ tls[returned'.thread] = {}
    /\ \A k \in TunnelKeys : ~HasTunnel(k)'

\* C11: an entry is removed from the registry only in the step in which the
\* close() awaited by a closeTunnel call for its key resolves, or in the
\* clear of closeAllTunnels after all its close() calls have settled,
\* resolved or rejected. A closeTunnel call whose close() rejects removes
\* nothing, and the entry a closeTunnel call read and removes has its handle
\* closed.
C11_RemovedOnSettledClose ==
    [][/\ \A k \in TunnelKeys :
            Removed(k) => ByCloseTunnel(k) \/ ByCloseAll
       /\ (returned'.op = "closeTunnel" /\ ~returned'.success)
            => UNCHANGED <<activeTunnels, listeners>>
       /\ \A k \in TunnelKeys :
            (Removed(k) /\ ByCloseTunnel(k) /\ HandleOf(k) \in tls[returned'.thread])
            => listeners'[HandleOf(k)].st = "closed"]_vars

\* C11's case: a closeTunnel call has closed the handle of its key and
\* removed the entry, while another key keeps its entry and its open handle.
C11_Witness ==
    /\ returned.op = "closeTunnel" /\ returned.via = "closed"
    /\ ~HasTunnel(returned.key)
    /\ \E h \in ListenerIds : listeners[h].st = "closed"
    /\ \E k \in TunnelKeys : HasTunnel(k) /\ listeners[HandleOf(k)].st = "open"

\* The handles of the entries of the registry.
RegistryHandles == { HandleOf(k) : k \in { j \in TunnelKeys : HasTunnel(j) } }

\* C12: closeAllTunnels calls close() on the handle of every entry that is
\* in the registry when it is called; while it waits, each close() settles on
\* its own and a rejection leaves the others outstanding; it returns only
\* after all of them have settled, never throws, and when it returns the
\* registry is empty.
C12_CloseAllToleratesFailures ==
    [][\A t \in Threads :
          /\ (tpc[t] = "idle" /\ tpc'[t] = "closingAll")
               => tls'[t] = RegistryHandles /\ RegistryHandles # {}
          /\ (tpc[t] = "closingAll" /\ tpc'[t] = "closingAll")
               => /\ tls'[t] \subseteq tls[t]
                  /\ Cardinality(tls[t] \ tls'[t]) <= 1
                  /\ closeErrors'[t] \ closeErrors[t] \subseteq tls[t] \ tls'[t]
          /\ tpc[t] = "closingAll" => tpc'[t] \in {"closingAll", "idle"}
          /\ (returned'.op = "closeAllTunnels" /\ returned'.thread = t)
               => /\ returned'.success
                  /\ tpc[t] = "closingAll" => tls[t] = {}
                  /\ \A k \in TunnelKeys : ~HasTunnel(k)']_vars

\* C12's case: closeAllTunnels has returned with the registry empty after
\* one of its close() calls resolved and another rejected.
C12_Witness ==
    /\ returned.op = "closeAllTunnels" /\ returned.via = "clearedAfterErrors"
    /\ \A k \in TunnelKeys : ~HasTunnel(k)
    /\ \E h \in ListenerIds : listeners[h].st = "closed"
    /\ \E h \in ListenerIds : listeners[h].st = "open"

\* The tunnel service with its 15 s timer: the timer of a createTunnel call
\* that waits fires in the end.
SpecTunnelTimer ==
    SpecTunnel /\ \A t \in Threads : WF_vars(ForwardTimeout(t))

C15_ProbeExhaustion ==
    /\ [](attempts <= maxAttempts)
    /\ [](probing = "notReady" => attempts = maxAttempts)
    /\ [][/\ (probing = "connecting" /\ probing' = "waiting") => attempts < maxAttempts
          /\ (probing = "connecting" /\ attempts = maxAttempts)
               => probing' \in {"ready", "notReady"}
          /\ probing \in {"ready", "notReady"} => UNCHANGED probeVars]_vars
    /\ <>(probing \in {"ready", "notReady"})

\* C15's case: every attempt failed and the loop resolved false.
C15_Witness ==
    /\ probing = "notReady"
    /\ attempts = maxAttempts

\* A create or refresh request is in startDevServer's call of createTunnel.
InStartTunnel(t) == req[t].op \in {"create", "refresh"} /\ tpc[t] = "forward"

\* Where the route of caller t goes when startDevServer's createTunnel
\* returned success and a URL, and where when it did not.
SaveUrlOf(t) == IF req[t].op = "create" THEN "c_saveUrl" ELSE "r_saveUrl"
FailureOf(t) == IF req[t].op = "create" THEN "c_error" ELSE "idle"

\* C16: when the probe resolves, with true or with false, startDevServer
\* goes on and calls createTunnel; and when createTunnel returns,
\* startDevServer's result is success exactly when the tunnel result is one
\* with a URL, whatever the probe said: the route goes on to save the URL
\* (and, in a create, to status 'ready'), or to its failure answer.
C16_ProbeNeverFails ==
    /\ [][\A t \in Threads :
            (tpc[t] = "sd_probe" /\ tpc'[t] # "sd_probe") =>
                /\ tpc'[t] = "sd_tunnel"
                /\ req'[t].ready \in {"ready", "notReady"}]_vars
    /\ [][\A t \in Threads :
            (tpc[t] = "sd_tunnel" /\ tpc'[t] # "sd_tunnel") =>
                \/ tpc'[t] = "forward" /\ req'[t].ready = req[t].ready
                \/ returned'.op = "createTunnel" /\ returned'.thread = t]_vars
    /\ [][\A t \in Threads :
            (tpc[t] \in {"sd_tunnel", "forward"} /\ req[t].op \in {"create", "refresh"}
               /\ returned'.op = "createTunnel" /\ returned'.thread = t) =>
                tpc'[t] = IF returned'.success /\ returned'.publicUrl # NULL
                          THEN SaveUrlOf(t) ELSE FailureOf(t)]_vars
    /\ [][\A t \in Threads :
            (tpc[t] \in {"c_saveUrl", "c_session"}) =>
                tpc'[t] \in {tpc[t], AfterStep[tpc[t]]}]_vars
    /\ [][\A t \in Threads :
            (tpc[t] = "c_ready" /\ tpc'[t] # "c_ready") =>
                /\ returned'.op = "create" /\ returned'.success
                /\ user_sandboxes'[req[t].sandbox].status = "ready"
                     \/ UNCHANGED user_sandboxes]_vars

\* C16's case: the probe of a create resolved false and startDevServer has
\* called createTunnel.
C16_Witness ==
    \E t \in Threads :
        /\ InStartTunnel(t) /\ req[t].op = "create"
        /\ req[t].ready = "notReady"

\* createTunnel returns to startDevServer, called for the create or
\* refresh request of caller t, in this step.
TunnelReturnsTo(t) ==
    /\ req[t].op \in {"create", "refresh"}
    /\ tpc[t] \in {"sd_tunnel", "forward"}
    /\ returned'.op = "createTunnel" /\ returned'.thread = t

\* C17: when createTunnel returns success: false to startDevServer during
\* a create or a refresh, the operation goes on as a success: the route
\* saves the local address of the proxy port as the preview URL, and a
\* create never goes to write status 'error'.
C17_TunnelFailureNonFatal ==
    [][\A t \in Threads :
          (TunnelReturnsTo(t) /\ ~returned'.success) =>
              /\ tpc'[t] = SaveUrlOf(t)
              /\ PreviewUrl(t)' = LocalUrl(req[t].proxyPort)]_vars

\* The stages of one create in the order of the spec, as the route records
\* them: the ports are returned, dev-theme.sh is spawned, the first probe
\* attempt is made, the probe has resolved, createTunnel has returned.
StageOrder == <<"ports", "spawn", "probe", "probed", "tunnel">>

\* Sequence s is the beginning of sequence u.
IsPrefix(s, u) == Len(s) <= Len(u) /\ SubSeq(u, 1, Len(s)) = s

\* Caller t is at a step of stage n of StageOrder or later.
StageReached(t, n) == Len(req[t].done) >= n

\* C18: the stages of one create are taken in the order ports, spawn,
\* first probe attempt, probe resolved, createTunnel, each appended to what
\* was done before; when the script is spawned the row holds the pair the
\* script gets; createTunnel is called only by the continuation of the
\* resolved probe; and status 'ready' is written only by a create that has
\* been through all of the stages.
C18_StepOrdering ==
    /\ [](\A t \in Threads :
            req[t].op = "create" =>
                /\ IsPrefix(req[t].done, StageOrder)
                /\ StageReached(t, 1) =>
                      /\ RequestPorts(t) # NoPorts
                      /\ RowPair(req[t].sandbox) = RequestPorts(t)
                /\ tpc[t] \in {"sd_wait", "sd_exited"} => req[t].done = SubSeq(StageOrder, 1, 2)
                /\ tpc[t] = "sd_probe" => req[t].done = SubSeq(StageOrder, 1, 3)
                /\ tpc[t] \in {"sd_tunnel", "forward"} =>
                      req[t].done = SubSeq(StageOrder, 1, 4)
                /\ tpc[t] \in {"c_saveUrl", "c_session", "c_ready"} =>
                      req[t].done = StageOrder)
    /\ [][\A t \in Threads :
            (req[t].op = "create" /\ req'[t].op = "create") =>
                \/ req'[t].done = req[t].done
                \/ /\ Len(req[t].done) < Len(StageOrder)
                   /\ req'[t].done = Append(req[t].done,
                                            StageOrder[Len(req[t].done) + 1])]_vars
    /\ [][\A s \in SandboxIds :
            (user_sandboxes'[s].status = "ready" /\ user_sandboxes[s].status # "ready") =>
                \E t \in Threads :
                    /\ req[t].op = "create" /\ req[t].sandbox = s
                    /\ req[t].done = StageOrder
                    /\ tpc[t] = "c_ready"]_vars

\* C18's case: a create has been through every stage, has written status
\* 'ready' and has answered success.
C18_Witness ==
    /\ returned.op = "create" /\ returned.success
    /\ user_sandboxes[returned.sandbox].status = "ready"
    /\ HasPorts(returned.sandbox)

\* The startup wait of caller t's startDevServer ends with the child's
\* 'error' in this step.
SpawnError(t) ==
    /\ tpc[t] = "sd_wait"
    /\ returned'.op = "startup" /\ returned'.thread = t /\ returned'.via = "error"

\* The stages caller t's request has taken.
Taken(t) == {req[t].done[i] : i \in DOMAIN req[t].done}

\* C19 as claimed: on a spawn error startDevServer fails without calling
\* createTunnel, and after it the registry holds no entry for the sandbox.
C19_NoEntryAfterSpawnError ==
    [][\A t \in Threads :
          SpawnError(t) =>
              /\ tpc'[t] = FailureOf(t)
              /\ activeTunnels'[RequestKey(t)] = NoTunnel]_vars

\* C19, amended: on a spawn error startDevServer fails at once: the route
\* goes to its failure answer, which in a create writes status 'error'
\* (unless the datastore fails) and answers 500; the request has called
\* neither the probe nor createTunnel, and its failing step leaves the
\* registry and the listeners as they were.
C19_SpawnErrorFatal ==
    /\ [][\A t \in Threads :
            SpawnError(t) =>
                /\ tpc'[t] = FailureOf(t)
                /\ "probe" \notin Taken(t)
                /\ "tunnel" \notin Taken(t)
                /\ UNCHANGED <<activeTunnels, listeners>>]_vars
    /\ [][\A t \in Threads :
            (tpc[t] = "c_error" /\ tpc'[t] # "c_error") =>
                /\ returned'.op = "create" /\ ~returned'.success
                /\ returned'.sandbox = req[t].sandbox
                /\ \/ user_sandboxes'[req[t].sandbox].status = "error"
                   \/ UNCHANGED user_sandboxes]_vars

\* C19's case: the child of a create emitted 'error', and the create has
\* written status 'error' and answered 500.
C19_Witness ==
    /\ returned.op = "create" /\ ~returned.success
    /\ returned.sandbox # NULL
    /\ user_sandboxes[returned.sandbox].status = "error"
    /\ HasPorts(returned.sandbox)
    /\ user_sandboxes[returned.sandbox].preview_url = NULL
    /\ \A k \in TunnelKeys : ~HasTunnel(k)
    /\ \A h \in ListenerIds : listeners[h] = NoListener

\* C20: when the spawned script has exited before it wrote any output, the
\* startup wait of startDevServer ends in a failure: startDevServer returns
\* success: false and goes on neither to the probe nor to the tunnel.
C20_EarlyExitFails ==
    [][\A t \in Threads :
          (tpc[t] = "sd_exited" /\ tpc'[t] # "sd_exited") =>
              /\ tpc'[t] = FailureOf(t)
              /\ "probe" \notin {req'[t].done[i] : i \in DOMAIN req'[t].done}]_vars


\* getPortsForSandbox returns null to the create caller t serves, whose
\* continuation is the step.
NullPortsAnswer(t) ==
    /\ tpc[t] = "c_ports"
    /\ returned.op = "getPortsForSandbox"
    /\ returned.sandbox = req[t].sandbox
    /\ returned.ports = NoPorts

\* The create caller t serves is at its failure answer because
\* getPortsForSandbox returned null.
PortsFailed(t) ==
    /\ tpc[t] = "c_error"
    /\ portErrors[req[t].sandbox] # "none"

\* C21: when getPortsForSandbox returns null during a create, the route
\* goes to its failure answer and nowhere else: its next step writes status
\* 'error' (saved unless the datastore rejects the write) and answers 500;
\* the request has spawned no script and called no createTunnel, the
\* registry has no entry for the sandbox, the sandbox's row holds no port,
\* and the two steps leave the pair of every row as it was.
C21_ExhaustionAtomic ==
    [][\A t \in Threads :
          /\ NullPortsAnswer(t) =>
                /\ PortsFailed(t)'
                /\ \A s \in SandboxIds : RowPair(s)' = RowPair(s)
          /\ (PortsFailed(t) /\ tpc'[t] # tpc[t]) =>
                /\ tpc'[t] = "idle"
                /\ returned'.op = "create" /\ returned'.thread = t
                /\ returned'.sandbox = req[t].sandbox
                /\ ~returned'.success /\ returned'.via = "500"
                /\ \/ user_sandboxes'[req[t].sandbox].status = "error"
                   \/ UNCHANGED user_sandboxes
                /\ Taken(t) = {}
                /\ activeTunnels'[RequestKey(t)] = NoTunnel
                /\ RowPair(req[t].sandbox) = NoPorts
                /\ \A s \in SandboxIds : RowPair(s)' = RowPair(s)]_vars

\* C21's case: a create was answered 500 with status 'error' written after
\* the scan had found the pool exhausted; its row holds no port and the
\* rows that fill the pool hold their pairs.
C21_Witness ==
    /\ returned.op = "create" /\ ~returned.success
    /\ returned.sandbox # NULL
    /\ portErrors[returned.sandbox] = "exhausted"
    /\ user_sandboxes[returned.sandbox].status = "error"
    /\ RowPair(returned.sandbox) = NoPorts
    /\ FirstAvailable(PortRows) = NoPorts
    /\ \A k \in TunnelKeys : ~HasTunnel(k)


\* The create of sandbox s failed on the exhausted pool, its row is there,
\* and the delete of another row has freed a slot since.
RetryDue(s) ==
    /\ portErrors[s] = "exhausted"
    /\ Present(s)
    /\ \E d \in SandboxIds \ {s} : user_sandboxes[d].state = "deleted"
    /\ FirstAvailable(PortRows) # NoPorts

\* C22: after the create for (userId, storeUrl) failed on the exhausted
\* pool and the delete of another sandbox has freed a slot, the same create
\* request goes on to the port allocation: the route does not answer it
\* 409 'Sandbox already exists' for the row the failed create left.
C22_CapacityErrorRetriable ==
    [][\A s \in SandboxIds :
          RetryDue(s) =>
              ~(/\ returned'.op = "create"
                /\ returned'.via = "409"
                /\ returned'.sandbox = s)]_vars


\* The number of slots the header of portAllocationService and its messages
\* give the pool: "5100-5400 (300 slots)", END - START.
PoolSlots == DEV_PORT_END - DEV_PORT_START

\* C29: the pool has exactly the documented number of slots: under
\* serialized allocation no more than PoolSlots rows hold a pair (the call
\* after PoolSlots rows hold one returns null), and no row holds a dev port
\* or a proxy port beyond the last of the PoolSlots slots.
C29_PoolHasDocumentedSlots ==
    /\ Cardinality({s \in SandboxIds : HasPorts(s)}) <= PoolSlots
    /\ \A s \in SandboxIds :
          HasPorts(s) =>
              /\ user_sandboxes[s].dev_port < DEV_PORT_START + PoolSlots
              /\ user_sandboxes[s].proxy_port < PROXY_PORT_START + PoolSlots


\* Caller t's delete handler ends a kill step in this step.
KillStepEnds(t) ==
    /\ tpc[t] \in {"d_listDev", "d_killDev", "d_listProxy", "d_killProxy"}
    /\ returned'.op = "deleteStep" /\ returned'.thread = t

\* Caller t's delete handler answers in this step.
DeleteAnswers(t) ==
    /\ tpc[t] = "d_record"
    /\ returned'.op = "delete" /\ returned'.thread = t

\* C25 as claimed: the count a successful delete reports is the number of
\* pids its listings of the two ports found.
C25_CountIsPidsListed ==
    [][\A t \in Threads :
          (DeleteAnswers(t) /\ returned'.success) =>
              returned'.processesKilled = req[t].found]_vars

\* C25, amended: a delete whose listings found no process on either port
\* goes on through its steps and, the row deleted, answers success with
\* count 0. In general the count is the number of pids the listings found
\* on the ports whose kill command then went through: a listing adds
\* nothing, a kill command that went through adds the pids of its listing,
\* one that failed adds nothing, and the answer reports the sum.
C25_CountIsPidsKilled ==
    [][\A t \in Threads :
          /\ KillStepEnds(t) =>
                /\ tpc'[t] = AfterDeleteStep[returned'.via]
                /\ req'[t].processesKilled =
                      req[t].processesKilled +
                      (IF returned'.success THEN Cardinality(req[t].pids) ELSE 0)
          /\ (tpc[t] \in {"d_listDev", "d_listProxy"} /\ tpc'[t] # tpc[t]) =>
                /\ req'[t].processesKilled = req[t].processesKilled
                /\ req'[t].found = req[t].found + Cardinality(req'[t].pids)
                /\ req'[t].pids \in {{}, Listed(KillPort(t, IF tpc[t] = "d_listDev"
                                                          THEN "killDev" ELSE "killProxy"))}
          /\ DeleteAnswers(t) =>
                /\ returned'.success = (user_sandboxes'[req[t].sandbox].state = "deleted")
                /\ returned'.success =>
                      /\ returned'.processesKilled = req[t].processesKilled
                      /\ returned'.processesKilled <= req[t].found
                      /\ req[t].found = 0 => returned'.processesKilled = 0]_vars

\* C25's case: a delete is about to delete its row after its listings found
\* a process on each port and one of the two kill commands failed.
C25_Witness ==
    \E t \in Threads :
        /\ tpc[t] = "d_record"
        /\ req[t].found = 2
        /\ req[t].processesKilled = 1


\* A step of caller t's delete handler ends in this step, failed: a command
\* of a kill step, closeTunnel (false or a rejected close()), rm -rf or
\* rm -f did not go through.
DeleteStepFails(t) ==
    /\ req[t].op = "delete"
    /\ returned'.thread = t
    /\ returned'.op \in {"deleteStep", "closeTunnel"}
    /\ ~returned'.success

\* The step of the delete handler a result is of.
StepOf(r) == IF r.op = "closeTunnel" THEN "closeTunnel" ELSE r.via

\* C26: a failed step of the delete handler (kill by port, closeTunnel,
\* theme folder, temp files) is followed by the next step; past its fetch the
\* handler returns only from the deletion of the record, which comes after
\* all five steps in their order, and it reports success exactly when the
\* record was deleted.
C26_StepsBestEffort ==
    [][\A t \in Threads :
          /\ DeleteStepFails(t) =>
                /\ tpc'[t] = AfterDeleteStep[StepOf(returned')]
                /\ req'[t].done = Append(req[t].done, StepOf(returned'))
          /\ (req[t].op = "delete" /\ tpc[t] # "idle" /\ tpc'[t] = "idle") =>
                DeleteAnswers(t)
          /\ DeleteAnswers(t) =>
                /\ req[t].done = DeleteSteps
                /\ returned'.success =
                       (user_sandboxes'[req[t].sandbox] = DeletedRow)]_vars

\* A delete in which the kill of the dev port, closeTunnel, the removal of
\* the theme folder and the removal of the temp files had all been tried is
\* at the deletion of the record; its closeTunnel had failed on a rejected
\* close(), the entry is still in the registry.
C26_Witness ==
    \E t \in Threads :
        /\ tpc[t] = "d_record"
        /\ req[t].done = DeleteSteps
        /\ activeTunnels[RequestKey(t)] # NoTunnel


\* The rows with ports other than the row of s, as the pool query of
\* findAvailablePortPair selects them.
OtherPortRows(s) ==
    { [dev_port |-> user_sandboxes[o].dev_port,
       proxy_port |-> user_sandboxes[o].proxy_port] :
          o \in {x \in SandboxIds \ {s} : HasPorts(x)} }

\* C27: when the delete of sandbox s answers success, the pool query of
\* findAvailablePortPair no longer selects the row of s, and the scan, come
\* to the offset of the pair s held, returns that pair; when the deletion of
\* the record fails, the delete answers an error and the table is as it was,
\* the pair still on the row of s.
C27_DeleteFreesPair ==
    [][\A t \in Threads :
          DeleteAnswers(t) =>
              LET s == req[t].sandbox
              IN  IF returned'.success
                  THEN /\ PortRows' = OtherPortRows(s)
                       /\ HasPorts(s) =>
                             ScanFrom(RowPair(s).devPort - DEV_PORT_START,
                                      {r.dev_port : r \in PortRows'},
                                      {r.proxy_port : r \in PortRows'}) = RowPair(s)
                  ELSE user_sandboxes' = user_sandboxes]_vars

\* A sandbox with a pair was deleted, and the allocation for another sandbox
\* that came after it returned the pair the deleted sandbox had held.
C27_Witness ==
    \E s \in SandboxIds :
        /\ user_sandboxes[s].state = "deleted"
        /\ firstPair[s] # NoPorts
        /\ served = 1
        /\ returned.op = "getPortsForSandbox"
        /\ returned.sandbox # s
        /\ returned.ports = firstPair[s]
        /\ RowPair(returned.sandbox) = firstPair[s]


\* A step of caller t's operation that the code bounds: it waits for the
\* datastore, for a host command run under a timeout, or for a timer of the
\* code (the 30 s startup wait, the probe's socket timeout and retry delay,
\* the 30 s race around forward()). The settling of forward() and of close()
\* by the provider and the output of the child are not among them.
BoundedStep(t) ==
    \/ CreateInsert(t) \/ CreatePortsAnswer(t) \/ CreateTheme(t)
    \/ tpc[t] = "c_ports" /\ (GetPortsSelect(req[t].sandbox) \/ GetPortsFind(req[t].sandbox)
                                 \/ GetPortsUpdate(req[t].sandbox))
    \/ CreateStartDevServer(t) \/ CreateReady(t) \/ CreateSaveUrl(t)
    \/ CreateStatus(t) \/ CreateLogged(t) \/ CreateError(t)
    \/ RefreshDevServer(t) \/ RefreshSaveUrl(t)
    \/ StartupAnswer(t) \/ ProbeResolves(t) \/ ProbeDone(t)
    \/ ForwardTimeout(t)
    \/ DeleteListDev(t) \/ DeleteKillDev(t) \/ DeleteListProxy(t)
    \/ DeleteKillProxy(t) \/ DeleteCloseTunnel(t) \/ DeleteThemeFolder(t)
    \/ DeleteTempFiles(t) \/ DeleteAnswer(t)

\* C23 as claimed: wherever a create, refresh or delete operation is
\* suspended, a step the code bounds takes it on, so that it terminates
\* even if forward() or close() never settles and the child prints nothing.
C23_SuspensionsBounded ==
    \A t \in Threads : tpc[t] # "idle" => ENABLED BoundedStep(t)

\* The same with the settling of close() counted among the steps: it is the
\* await of listener.close() alone that nothing bounds.
C23_BoundedButClose ==
    \A t \in Threads :
        tpc[t] # "idle" => ENABLED (BoundedStep(t) \/ CloseResolve(t) \/ CloseReject(t))


\* The startup wait of caller t's startDevServer resolves in this step
\* because a marker was in the child's output.
MarkerResolves(t) ==
    /\ tpc[t] = "sd_wait"
    /\ returned'.op = "startup"
    /\ returned'.thread = t
    /\ returned'.via = "marker"

\* The script of caller t's request has launched the Shopify server and the
\* proxy server.
BothLaunched(t) == req[t].script \in {"proxy", "up", "exitedProxy"}

\* C30 as claimed: when the startup wait resolves on a marker, the script
\* has launched both the Shopify dev server and the proxy server.
C30_MarkerMeansBothUp ==
    [][\A t \in Threads : MarkerResolves(t) => BothLaunched(t)]_vars

\* The script of caller t's request launches a server in this step.
ScriptLaunches(t) == req'[t].children # req[t].children

\* The refresh of caller t answers success in this step.
RefreshAnswers(t) ==
    /\ req[t].op = "refresh"
    /\ tpc[t] = "r_saveUrl"
    /\ tpc'[t] = "idle"

\* Before either server is launched, every process that was on a port of the
\* sandbox when the script was spawned has been sent SIGTERM or has ended;
\* and a kill step that found no process goes on to the next step.
KilledBeforeStart ==
    \A t \in Threads :
        /\ ScriptLaunches(t) => \A p \in req[t].old : procs[p].st # "running"
        /\ (Spawned(t) /\ req[t].script = "none" /\ req'[t].script # "none"
                /\ BoundTo(req[t].devPort, req[t].proxyPort) = {})
              => req'[t].script \in {"killedDev", "exitedEarly"}

\* C24 as claimed: the processes on the sandbox's ports when the script
\* begins are sent a termination signal before either server is launched, no
\* process on a port is no error, and when the refresh has answered none of
\* those processes runs any more.
C24_KillBeforeStart ==
    [][/\ KilledBeforeStart
       /\ \A t \in Threads :
             RefreshAnswers(t) =>
                 \A p \in req[t].old : procs'[p].st \notin {"running", "signalled"}]_vars

\* The part of C24 that is about the signals alone.
C24_SignalledBeforeStart == [][KilledBeforeStart]_vars


\* A refresh is about to answer success although a process that was on the
\* dev port when the script began still runs, the SIGTERM of STEP 4 sent to
\* it: the new Shopify server found the port taken and the script has exited.
C24_StaleServerSurvives ==
    \E t \in Threads :
        /\ req[t].op = "refresh"
        /\ tpc[t] = "r_saveUrl"
        /\ req[t].script = "exitedShopify"
        /\ \E p \in req[t].old : procs[p].st = "signalled"


\* A step of the script of caller t's request sends SIGTERM to process p.
ScriptSignals(t, p) ==
    /\ Spawned(t)
    /\ req'[t].script # req[t].script
    /\ procs[p].st = "running"
    /\ procs'[p].st = "signalled"

\* C28 as claimed: the script a create spawned for one sandbox never sends
\* SIGTERM to a server that was launched for another sandbox whose row is
\* still in the table.
C28_NoInterference ==
    [][\A t \in Threads : \A p \in Pids :
          (ScriptSignals(t, p) /\ procs[p].sandbox \notin {NULL, req[t].sandbox})
              => ~Present(procs[p].sandbox)]_vars


\* getTunnelUrl(userId, sandboxId): the URL of the entry under the key, null
\* without one.
getTunnelUrl(userId, sandboxId) == activeTunnels[getTunnelKey(userId, sandboxId)].url

RefreshRejected == returned'.op = "refresh" /\ returned'.via \in {"404", "400"}

\* C37: a refresh request that is rejected (no row, or a row without theme
\* id, credentials or ports) is answered 404 or 400 and changes nothing:
\* the registry and the listeners, the processes, the table and the
\* requests being served are what they were; and a request that goes on to
\* refreshDevServer is one for a row that exists and has its ports.
C37_RejectedRefreshNoEffect ==
    [][/\ RefreshRejected =>
            UNCHANGED <<user_sandboxes, activeTunnels, listeners, procs, tpc, req, served>>
       /\ \A t \in Threads :
            (tpc[t] = "idle" /\ tpc'[t] = "r_refresh") =>
                /\ Present(req'[t].sandbox)
                /\ HasPorts(req'[t].sandbox)]_vars

\* C37's case: the refresh of a sandbox that has a tunnel in the registry
\* and a process on its proxy port was answered 400.
C37_Witness ==
    /\ returned.op = "refresh"
    /\ returned.via = "400"
    /\ HasPorts(returned.sandbox)
    /\ activeTunnels[getTunnelKey(UserOf(returned.sandbox), SandboxName(returned.sandbox))] # NoTunnel
    /\ \E p \in Pids : Alive(p) /\ procs[p].port = user_sandboxes[returned.sandbox].proxy_port


\* The registry's entry for the sandbox of caller t's request.
RequestEntry(t) == activeTunnels[RequestKey(t)]

CreateTunnelFails(t) ==
    /\ tpc[t] = "forward"
    /\ returned'.op = "createTunnel"
    /\ returned'.thread = t
    /\ ~returned'.success

\* C32: when createTunnel returns success: false, the listener its forward
\* call was to open is not open, and the listener of a call that has
\* returned on its timer does not open afterwards: no listener of a failed
\* call is open outside the registry.
C32_NoOrphanAfterFailure ==
    [][/\ \A t \in Threads :
            CreateTunnelFails(t) =>
                \A h \in tls[t] : listeners'[h].st # "open"
       /\ \A h \in ListenerIds :
            (listeners[h].st = "pending" /\ listeners[h].waiter = NULL) =>
                listeners'[h].st # "open"]_vars


\* A tunnel call of caller t's refresh returns in the step.
RefreshTunnelReturn(t, op) ==
    /\ req[t].op = "refresh"
    /\ returned'.op = op
    /\ returned'.thread = t

\* When the refresh answers success the registry has an entry for the
\* sandbox with the URL the refresh returns, and the URL the refresh writes
\* to the row is that URL.
RefreshPersistsEntryUrl(t) ==
    RefreshAnswers(t) =>
        /\ RequestEntry(t) # NoTunnel
        /\ RequestEntry(t).url = req[t].url
        /\ user_sandboxes' # user_sandboxes =>
               user_sandboxes'[req[t].sandbox].preview_url = RequestEntry(t).url

PublicUrls == { UrlOf(h) : h \in ListenerIds }

\* C34: when no operation is in progress, every row whose persisted preview
\* URL is a public tunnel URL has an entry in the registry with that URL.
C34_PersistedMatchesRegistry ==
    (Quiet /\ NoCallInFlight) =>
        \A s \in SandboxIds :
            (Present(s) /\ user_sandboxes[s].preview_url \in PublicUrls) =>
                getTunnelUrl(UserOf(s), SandboxName(s)) = user_sandboxes[s].preview_url


\* The statuses of a create that goes through, in their order.
StatusOrder ==
    <<"created", "pulling-theme", "theme-pulled", "pushing-theme", "theme-pushed",
      "setting-up-claude", "setting-up-dev-server", "ready">>

\* Caller t's create route awaits an updateSandboxStatus call in this state
\* and has its answer in the next.
WritesStatus(t) ==
    /\ req[t].op = "create"
    /\ tpc[t] \in DOMAIN StatusAt
    /\ tpc'[t] # tpc[t]

\* C35: the statuses a create writes are 'created' to 'ready' in the fixed
\* order, each the one after the last written, none skipped or repeated, or
\* 'error' after any of them; the write of 'error' and the write of 'ready'
\* are the last the create makes, the route answers with them; a step of the
\* create that fails leads to the write of 'error'; 'ready' is written
\* only after all seven statuses before it and after ports, spawn, probe and
\* tunnel went through; and the row's status changes only to the status
\* that is being written.
C35_StatusProgression ==
    [][\A t \in Threads :
          /\ WritesStatus(t) =>
                /\ IsPrefix(req[t].written, StatusOrder)
                /\ StatusAt[tpc[t]] \in {"error", StatusOrder[Len(req[t].written) + 1]}
                /\ IF StatusAt[tpc[t]] \in {"error", "ready"}
                   THEN /\ tpc'[t] = "idle"
                        /\ returned'.op = "create"
                        /\ returned'.success = (StatusAt[tpc[t]] = "ready")
                   ELSE req'[t].written = Append(req[t].written, StatusAt[tpc[t]])
                /\ user_sandboxes' # user_sandboxes =>
                       user_sandboxes' = [user_sandboxes EXCEPT
                                             ![req[t].sandbox].status = StatusAt[tpc[t]]]
          /\ (req[t].op = "create"
                 /\ user_sandboxes'[req[t].sandbox].status
                        # user_sandboxes[req[t].sandbox].status) =>
                WritesStatus(t)
          /\ (req[t].op = "create" /\ ~WritesStatus(t)) =>
                req'[t].written = req[t].written
          /\ (req[t].op = "create" /\ tpc[t] = "c_ports" /\ tpc'[t] # tpc[t]
                 /\ returned.ports = NoPorts) =>
                tpc'[t] = "c_error"
          /\ (req[t].op = "create" /\ returned'.thread = t /\ ~returned'.success
                 /\ \/ returned'.op = "createTunnel"
                    \/ returned'.op = "startup" /\ returned'.via = "error") =>
                tpc'[t] = "c_error"
          /\ (WritesStatus(t) /\ StatusAt[tpc[t]] = "ready") =>
                /\ req[t].written = SubSeq(StatusOrder, 1, 7)
                /\ req[t].done = StageOrder]_vars

\* C35's case: a create has written all its statuses, the last of them
\* 'ready', and answered success.
C35_Witness ==
    /\ returned.op = "create"
    /\ returned.success
    /\ user_sandboxes[returned.sandbox].status = "ready"


\* The probe loop has resolved.
ProbeResolved == probing \in {"ready", "notReady"}

\* C36: the loop resolves true in the step in which an attempt connects,
\* and only then, and makes no attempt in that step; once it has resolved,
\* with true or with false, nothing of the loop changes any more: no further
\* attempt, no second resolution; from the first call of checkPort on, the
\* number of attempts made is between 1 and maxAttempts; and the loop does
\* resolve.
C36_ProbeSuccessPath ==
    /\ [][/\ (probing # "ready" /\ probing' = "ready") =>
                /\ probing = "connecting"
                /\ attempts' = attempts
          /\ ProbeResolved => UNCHANGED probeVars
          /\ attempts' \in {attempts, attempts + 1}
          /\ attempts' # attempts => (probing \in {"idle", "waiting"} /\ probing' = "connecting")]_vars
    /\ [](probing # "idle" => (attempts >= 1 /\ attempts <= maxAttempts))
    /\ [](probing = "idle" => attempts = 0)
    /\ <>ProbeResolved

\* C36's case: after attempts that failed, an attempt connected and the loop
\* resolved true short of maxAttempts.
C36_Witness ==
    /\ probing = "ready"
    /\ attempts > 1
    /\ attempts < maxAttempts

====
